---- MODULE Spec2Model ----
(***************************************************************************)
(* Model of the call optimizer of src/ai-service/app.py: the module-level  *)
(* DeepSeekAPIOptimizer instance `api_optimizer` (content-addressed TTL    *)
(* cache, sliding rate window), optimized_deepseek_call that wraps the     *)
(* upstream call with it, and the older call_deepseek_api_with_caching     *)
(* wrapper that several call sites still use.                              *)
(*                                                                         *)
(* Time is a discrete clock `now`; every time.time() of the code reads it. *)
(* The numeric parameters of the optimizer are scaled down (the code's     *)
(* values are given beside each); the claims are stated in terms of the    *)
(* parameters, not of their values.                                        *)
(*                                                                         *)
(* Each request handler (a Flask worker thread) is a process p whose       *)
(* position pc[p] is the source line it is about to execute; one action    *)
(* per access to the shared optimizer state.                               *)
(***************************************************************************)
EXTENDS Integers, Sequences, FiniteSets, TLC

\* ---------------------------------------------------------------- bounds
NumProcs == 2       \* request threads that may run concurrently
NumKeys  == 4       \* size of the alphabet of content characters
MaxTime  == 3       \* the clock stops here
MaxCalls == 4       \* calls made in one behaviour

\* --------------------------------------- optimizer parameters (scaled)
max_requests_per_minute == 2    \* app.py:807 (50)
RATE_WINDOW             == 2    \* app.py:813 (60 seconds)
cache_ttl               == 3    \* app.py:808 (3600 seconds)
CACHE_MAX               == 2    \* app.py:853 (1000 entries)
PREFIX_LEN              == 1    \* app.py:832 (content[:1000])
CACHING_CACHE_MAX       == 1    \* app.py:248 (100 entries)

\* ----------------------------------------- chunker parameters (scaled)
BOUNDARY        == 4    \* app.py:1030 (100 characters either side of the cut)
BOUNDARY_BACK   == 8    \* app.py:1038 (200)
LINE_MAX        == 4    \* app.py:956 (a header line has fewer than 100 characters)
BASE_IMPORTANCE == 3    \* app.py:1079 (0.3), in tenths
FULL_IMPORTANCE == 10   \* app.py:1011 (1.0), in tenths
DEFAULT_CHUNK_SIZE == 19    \* app.py:931 (chunk_size=3000)
DEFAULT_OVERLAP    == 5     \* app.py:931 (overlap=500)

\* --------------------------------- chat context parameters (scaled)
\* lengths are scaled as the chunker's: 8000 is 50, 500 is 5
max_context_length == 50     \* line 2834: 8000
MEANINGFUL_SPACE   == 5      \* line 2851: 500
TOP_CHUNKS         == 5      \* line 2827: relevant_chunks[:5]

\* ------------------------------------------- image search parameters
MEANINGFUL_WORD == 3         \* line 1556: len(q_word) > 3
QUALITY_DEFAULT == 5         \* line 1564: 0.5, in tenths

\* --------------------------------------------- global chat parameters
DOCUMENT_LIMIT == 20         \* line 3101: LIMIT 20

\* ------------------------------------- chat cache content (scaled)
QUESTION_PREFIX == 1         \* line 2895: user_question[:100]

\* -------------------------- normalizer parameters, in hundredths
CONF_MIN     == 10      \* app.py:30 (0.1)
CONF_MAX     == 100     \* app.py:30 (1.0)
CONF_DEFAULT == 75      \* app.py:32, 48, 60, 68 (0.75)
CONF_LIFTED  == 15      \* app.py:73 (0.15)

\* ------------------------------------------------- bounds of the texts
MaxTextLen   == 5       \* longest text over all of ChunkChars
MaxPlainLen  == 7       \* longest text over PlainChars
MaxChunkSize == 5       \* largest chunk_size tried
MaxChunks    == 8       \* the chunker's loop is followed this far
ChunkChars   == {"a", ".", "\n", "S"}
PlainChars   == {"a", "."}
MaxRoles     == 2       \* longest list of roles given to the normalizer
MaxListLen   == 3       \* longest list of chunks given to the prioritizer
MaxStartPos  == 2       \* greatest start_pos of such a chunk
MaxRelevant  == 6       \* longest list of relevant chunks
MaxDocLen    == 66      \* longest document given to the chat
MaxSpaces    == 30      \* longest run of spaces in such a document
MaxWords     == 3       \* most words of a query or of an image text
MaxBatch     == 3       \* most requests of a batch
MaxDocuments == 2       \* most documents the user of a global chat can read
MaxAskedLen  == 2       \* longest document a chat request asks about
RoleNames    == {"LEADERSHIP", "HR", "ADMIN", "WIZARD", "hr"}

Procs     == 1..NumProcs
Alphabet  == 1..NumKeys
\* request payloads: texts of one or two characters; only the first
\* PREFIX_LEN characters enter the cache key
Contents  == {<<a>> : a \in Alphabet} \cup {<<a, b>> : a \in Alphabet, b \in 1..2}
\* results are numbers: a completion with content is 1, 2, ...
EMPTY     == 0                  \* a completion with empty content (falsy)
None      == -1                 \* Python's None
NoTime    == -1
NoAnswer  == -2                 \* no upstream request was sent
NoKey     == <<>>
NoItem    == [key |-> NoKey, result |-> None, timestamp |-> NoTime]

VARIABLES
    now,                 \* time.time()
    cache,               \* api_optimizer.cache: entries in dict (insertion) order
    request_timestamps,  \* api_optimizer.request_timestamps['minute']
    request_counts,      \* api_optimizer.request_counts['total']
    pc,                  \* per thread: the line it is about to execute
    local,               \* per thread: the local variables of its call
    ncalls,              \* calls begun so far
    nkeys,               \* distinct first characters of the contents used so far
    history,             \* completed calls, in order of return (sequential runs)
    admitted,            \* every timestamp record_request ever appended
    api_calls,           \* executions of call_deepseek_api (requests.post, 192)
    caching_cache,       \* call_deepseek_api_with_caching.cache (216-217)
    usage_stats,         \* the value get_usage_stats returned, until the next
                         \* operation begins
    prompts,             \* the prompt of each call a handler made, in the order
                         \* of the calls (sequential runs)
    chunking,            \* a call of create_intelligent_chunks: its arguments,
                         \* its locals and its position
    normalizing,         \* a call of normalize_analysis: argument and result
    prioritizing,        \* a call of prioritize_chunks_for_processing
    assembling,          \* the context assembly loop of chat_with_document
    scoring,             \* a call of find_relevant_images, for one image
    batching,            \* a call of deepseek_batch_processing
    answering            \* a request to global_chat

vars == <<now, cache, request_timestamps, request_counts, pc, local, ncalls,
          nkeys, history, admitted, api_calls, caching_cache, usage_stats,
          prompts, chunking, normalizing, prioritizing, assembling,
          scoring, batching, answering>>

\* the document functions (chunker, normalizer, prioritizer, context
\* assembly): pure computations on their arguments, which share no state
\* with the optimizer
docs == <<chunking, normalizing, prioritizing, assembling,
          scoring, batching, answering>>

\* the image search, the batch processor and the global chat
handlers == <<scoring, batching, answering>>

\* what optimized_deepseek_call neither reads nor writes
others == <<caching_cache, usage_stats, prompts, docs>>

\* the state of the optimizer and of the threads that call it
optimizer == <<now, cache, request_timestamps, request_counts, pc, local, ncalls,
               nkeys, history, admitted, api_calls, caching_cache, usage_stats,
               prompts>>

shared == <<cache, request_timestamps, request_counts>>

\* the locals of a thread that is in no call
NoLocal ==
    [serial      |-> 0,        \* which call this is (names the upstream's answer;
                               \* the interleaved runs do not tell the answers apart)
     cache_key   |-> NoKey,    \* cache_key (881)
     cached_item |-> NoItem,   \* cached_item (838); the item stored (847)
     trimmed     |-> <<>>,     \* the list built by the comprehension (816)
     total_read  |-> 0,        \* the value `+= 1` loaded (827)
     result      |-> None,     \* result (904)
     oldest_key  |-> NoKey,    \* oldest_key (854)
     began       |-> NoTime,   \* clock value when the call began
     checked     |-> NoTime,   \* clock value read by can_make_request (812)
     recorded    |-> NoTime,   \* clock value appended by record_request (825)
     invoked     |-> 0,        \* upstream requests sent by the call
     entry       |-> <<>>]     \* the shared state when the call began

\* ------------------------------------------------------------- helpers
\* `cache_key in self.cache`
HasKey(c, k) == \E i \in 1..Len(c) : c[i].key = k

\* `self.cache[cache_key]` (only where HasKey)
Lookup(c, k) == c[CHOOSE i \in 1..Len(c) : c[i].key = k]

\* `self.cache[cache_key] = {...}`: an existing key keeps its position in
\* the dict order, a new key goes last
Put(c, k, r, t) ==
    LET item == [key |-> k, result |-> r, timestamp |-> t] IN
    IF HasKey(c, k)
    THEN [i \in 1..Len(c) |-> IF c[i].key = k THEN item ELSE c[i]]
    ELSE Append(c, item)

\* `del self.cache[cache_key]` (only where HasKey)
Del(c, k) == SelectSeq(c, LAMBDA e : e.key # k)

\* (faulty variant) the newest entry is chosen for eviction
OldestKey_Newest(c) ==
    LET i == CHOOSE i \in 1..Len(c) :
                 \A j \in 1..Len(c) : c[i].timestamp >= c[j].timestamp
    IN c[i].key

\* min(self.cache.keys(), key=timestamp): the first key, in dict order,
\* among those of least timestamp
OldestKey(c) ==
    LET i == CHOOSE i \in 1..Len(c) :
                 /\ \A j \in 1..Len(c) : c[i].timestamp <= c[j].timestamp
                 /\ \A j \in 1..(i - 1) : c[j].timestamp > c[i].timestamp
    IN c[i].key

\* get_cache_key: the operation and parameters are fixed here; md5 is taken
\* to be injective, so the key is the truncated content itself
get_cache_key(content) ==
    SubSeq(content, 1, IF Len(content) < PREFIX_LEN THEN Len(content) ELSE PREFIX_LEN)

\* (faulty variant) a timestamp exactly one window old is kept
TrimWindow_Inclusive(ts, t) == SelectSeq(ts, LAMBDA x : x >= t - RATE_WINDOW)

\* the list comprehension of can_make_request
TrimWindow(ts, t) == SelectSeq(ts, LAMBDA x : x > t - RATE_WINDOW)

\* (faulty variant) the ceiling test off by one
BelowCeiling_OffByOne(n) == n <= max_requests_per_minute

\* the test that admits a call
BelowCeiling(n) == n < max_requests_per_minute

\* (faulty variant) the freshness test reversed
Fresh_Reversed(item, t) == t - item.timestamp >= cache_ttl

\* the freshness test of get_cached_result
Fresh(item, t) == t - item.timestamp < cache_ttl

\* the test that triggers eviction in cache_result
OverCapacity(c) == Len(c) > CACHE_MAX

\* cache c holds an entry for k that is unexpired at time t
Cached(c, k, t) == HasKey(c, k) /\ Fresh(Lookup(c, k), t)

\* ------------------------------------------------------ initial state
\* no document function has been called
NoCall == [pc |-> "rest"]

\* no image search, batch or global chat is running
HandlersAtRest ==
    /\ scoring = NoCall
    /\ batching = NoCall
    /\ answering = NoCall

\* the service has started and no document function is running
DocsAtRest ==
    /\ HandlersAtRest
    /\ chunking = NoCall
    /\ normalizing = NoCall
    /\ prioritizing = NoCall
    /\ assembling = NoCall

\* api_optimizer = DeepSeekAPIOptimizer() (803-808, 875)
OptimizerInit ==
    /\ now = 0
    /\ cache = <<>>
    /\ request_timestamps = <<>>
    /\ request_counts = 0
    /\ pc = [p \in Procs |-> "idle"]
    /\ local = [p \in Procs |-> NoLocal]
    /\ ncalls = 0
    /\ nkeys = 0
    /\ history = <<>>
    /\ admitted = <<>>
    /\ api_calls = 0
    /\ caching_cache = <<>>
    /\ usage_stats = <<>>
    /\ prompts = <<>>

\* the state of the service after start-up
Init == OptimizerInit /\ DocsAtRest

\* a step of thread p to line l that sets its locals to loc
Step(p, l, loc) ==
    /\ pc' = [pc EXCEPT ![p] = l]
    /\ local' = [local EXCEPT ![p] = loc]
    /\ UNCHANGED <<now, ncalls, nkeys, history, admitted, api_calls, others>>

\* the return of optimized_deepseek_call: the thread's locals are dropped.
\* With `log` (the runs in which calls follow each other) the call is
\* logged with the way it ended and the value it returned
Return(p, log, outcome, ret, evicted) ==
    /\ pc' = [pc EXCEPT ![p] = "idle"]
    /\ local' = [local EXCEPT ![p] = NoLocal]
    /\ history' = IF log
                  THEN Append(history,
                         [key      |-> local[p].cache_key,
                          outcome  |-> outcome,
                          ret      |-> ret,
                          began    |-> local[p].began,
                          held     |-> IF HasKey(local[p].entry[1], local[p].cache_key)
                                       THEN Lookup(local[p].entry[1], local[p].cache_key)
                                       ELSE NoItem,
                          checked  |-> local[p].checked,
                          recorded |-> local[p].recorded,
                          invoked  |-> local[p].invoked,
                          answer   |-> IF local[p].invoked = 1
                                       THEN local[p].result ELSE NoAnswer,
                          stored   |-> IF outcome = "ok"
                                       THEN local[p].cached_item.timestamp ELSE NoTime,
                          evicted  |-> evicted])
                  ELSE history
    /\ UNCHANGED <<now, ncalls, nkeys, admitted, api_calls, others>>

\* the clock advances. One unit of the scaled clock stands for half a rate
\* window (30 s): it passes between calls and while a thread waits for the
\* upstream (line 192, timeout 60 s), never inside the few in-memory steps
\* of a call
Tick ==
    /\ now < MaxTime
    /\ \A p \in Procs : pc[p] \in {"idle", "L192"}
    /\ now' = now + 1
    /\ UNCHANGED <<shared, pc, local, ncalls, nkeys, history, admitted, api_calls, others>>

\* ------------------------------------------- optimized_deepseek_call
\* line 881: the call begins and computes its cache key. The characters are
\* interchangeable, so they are named in the order of their first use: a
\* call uses a first character already used or the least unused one. The
\* prompt is no part of the key: what becomes of `prompts` is said by the
\* caller
Call(p, log, content) ==
    /\ pc[p] = "idle"
    /\ ncalls < MaxCalls
    /\ content[1] <= nkeys + 1
    /\ ncalls' = ncalls + 1
    /\ nkeys' = IF content[1] > nkeys THEN content[1] ELSE nkeys
    /\ pc' = [pc EXCEPT ![p] = "L837"]
    /\ local' = [local EXCEPT ![p] =
                    [NoLocal EXCEPT !.serial = IF log THEN ncalls + 1 ELSE 1,
                                    !.cache_key = get_cache_key(content),
                                    !.began = IF log THEN now ELSE NoTime,
                                    !.entry = IF log THEN shared ELSE <<>>]]
    /\ usage_stats' = <<>>
    /\ UNCHANGED <<now, shared, history, admitted, api_calls, caching_cache, docs>>

\* get_cached_result, line 837: `if cache_key in self.cache`
CacheTest(p) ==
    /\ pc[p] = "L837"
    /\ Step(p, IF HasKey(cache, local[p].cache_key) THEN "L838" ELSE "L812", local[p])
    /\ UNCHANGED shared

\* line 838: `cached_item = self.cache[cache_key]`; a KeyError (the entry
\* was removed since the test) is caught at line 915
CacheRead(p, log) ==
    /\ pc[p] = "L838"
    /\ IF HasKey(cache, local[p].cache_key)
       THEN Step(p, "L839",
                 [local[p] EXCEPT !.cached_item = Lookup(cache, local[p].cache_key)])
       ELSE Return(p, log, "error", None, NoKey)
    /\ UNCHANGED shared

\* (faulty variant) a cache hit is recorded in the rate window before it returns
CacheHit_Counted(p, log) ==
    /\ pc[p] = "L839"
    /\ Fresh(local[p].cached_item, now)
    /\ Return(p, log, "hit", local[p].cached_item.result, NoKey)
    /\ request_timestamps' = Append(request_timestamps, now)
    /\ UNCHANGED <<cache, request_counts>>

\* lines 839-840 and 885-887: a fresh entry's result is returned
CacheHit(p, log) ==
    /\ pc[p] = "L839"
    /\ Fresh(local[p].cached_item, now)
    /\ Return(p, log, "hit", local[p].cached_item.result, NoKey)
    /\ UNCHANGED shared

\* (faulty variant) the lookup sweeps every expired entry, not only its own
CacheExpire_Sweep(p, log) ==
    /\ pc[p] = "L839"
    /\ ~Fresh(local[p].cached_item, now)
    /\ cache' = SelectSeq(cache, LAMBDA e : Fresh(e, now))
    /\ Step(p, "L812", local[p])
    /\ UNCHANGED <<request_timestamps, request_counts>>

\* lines 839-842: an expired entry is deleted (KeyError when it is gone)
CacheExpire(p, log) ==
    /\ pc[p] = "L839"
    /\ ~Fresh(local[p].cached_item, now)
    /\ IF HasKey(cache, local[p].cache_key)
       THEN /\ cache' = Del(cache, local[p].cache_key)
            /\ Step(p, "L812", local[p])
       ELSE /\ Return(p, log, "error", None, NoKey)
            /\ UNCHANGED cache
    /\ UNCHANGED <<request_timestamps, request_counts>>

\* can_make_request, lines 812-819: the comprehension reads the clock and
\* the shared list and builds the trimmed list
WindowRead(p, log) ==
    /\ pc[p] = "L812"
    /\ Step(p, "L816",
            [local[p] EXCEPT !.trimmed = TrimWindow(request_timestamps, now),
                             !.checked = IF log THEN now ELSE NoTime])
    /\ UNCHANGED shared

\* line 816: the trimmed list replaces the shared one
WindowWrite(p) ==
    /\ pc[p] = "L816"
    /\ request_timestamps' = local[p].trimmed
    /\ Step(p, "L821", [local[p] EXCEPT !.trimmed = <<>>])
    /\ UNCHANGED <<cache, request_counts>>

\* lines 821 and 890-892: the count is below the ceiling, the call goes on
Admit(p) ==
    /\ pc[p] = "L821"
    /\ BelowCeiling(Len(request_timestamps))
    /\ Step(p, "L826", local[p])
    /\ UNCHANGED shared

\* (faulty variant) the request is counted before the ceiling test refuses it
Deny_Recorded(p, log) ==
    /\ pc[p] = "L821"
    /\ ~BelowCeiling(Len(request_timestamps))
    /\ Return(p, log, "denied", None, NoKey)
    /\ request_counts' = request_counts + 1
    /\ UNCHANGED <<cache, request_timestamps>>

\* lines 821 and 890-892: the ceiling is reached, the call returns None
Deny(p, log) ==
    /\ pc[p] = "L821"
    /\ ~BelowCeiling(Len(request_timestamps))
    /\ Return(p, log, "denied", None, NoKey)
    /\ UNCHANGED shared

\* record_request, lines 825-826: the clock value is appended
RecordAppend(p, log) ==
    /\ pc[p] = "L826"
    /\ request_timestamps' = Append(request_timestamps, now)
    /\ admitted' = Append(admitted, now)
    /\ pc' = [pc EXCEPT ![p] = "L827"]
    /\ local' = [local EXCEPT ![p].recorded = IF log THEN now ELSE NoTime]
    /\ UNCHANGED <<now, cache, request_counts, ncalls, nkeys, history, api_calls, others>>

\* line 827, `self.request_counts['total'] += 1`: the load
CountLoad(p) ==
    /\ pc[p] = "L827"
    /\ Step(p, "L827s", [local[p] EXCEPT !.total_read = request_counts])
    /\ UNCHANGED shared

\* line 827: the store
CountStore(p) ==
    /\ pc[p] = "L827s"
    /\ request_counts' = local[p].total_read + 1
    /\ Step(p, "L904", [local[p] EXCEPT !.total_read = 0])
    /\ UNCHANGED <<cache, request_timestamps>>

\* call_deepseek_api (182-208), called at line 904: the upstream answers
\* with a completion, which may be empty, or the request fails (timeout,
\* network error, status other than 200, malformed body), which
\* call_deepseek_api turns into None. The upstream is not a function of the
\* prompt: the n-th call's completion is named n, so that two invocations
\* never agree by chance
call_deepseek_api(n) == {n, EMPTY, None}

\* (faulty variant) every result is stored, the test of line 910 is missing
Truthy_Always(r) == TRUE

\* `if result:` (910)
Truthy(r) == r # None /\ r # EMPTY

\* lines 904-907 and 192: the request is sent to the upstream
Invoke(p) ==
    /\ pc[p] = "L904"
    /\ api_calls' = api_calls + 1
    /\ pc' = [pc EXCEPT ![p] = "L192"]
    /\ local' = [local EXCEPT ![p].invoked = 1]
    /\ UNCHANGED <<now, shared, ncalls, nkeys, history, admitted, others>>

\* lines 198-208 and 904: the upstream has answered or failed
Respond(p) ==
    /\ pc[p] = "L192"
    /\ \E r \in call_deepseek_api(local[p].serial) :
          Step(p, "L910", [local[p] EXCEPT !.result = r])
    /\ UNCHANGED shared

\* lines 910-911: a truthy result goes to cache_result
ResultTruthy(p) ==
    /\ pc[p] = "L910"
    /\ Truthy(local[p].result)
    /\ Step(p, "L847", local[p])
    /\ UNCHANGED shared

\* lines 910-913: any other result is returned as it is
ResultFalsy(p, log) ==
    /\ pc[p] = "L910"
    /\ ~Truthy(local[p].result)
    /\ Return(p, log, "unstored", local[p].result, NoKey)
    /\ UNCHANGED shared

\* cache_result, lines 847-850: the entry is stored with the clock value
CacheStore(p) ==
    /\ pc[p] = "L847"
    /\ cache' = Put(cache, local[p].cache_key, local[p].result, now)
    /\ Step(p, "L853",
            [local[p] EXCEPT !.cached_item =
                [key |-> local[p].cache_key, result |-> local[p].result,
                 timestamp |-> now]])
    /\ UNCHANGED <<request_timestamps, request_counts>>

\* line 853: the size test; within capacity the call returns its result
CacheSizeOk(p, log) ==
    /\ pc[p] = "L853"
    /\ ~OverCapacity(cache)
    /\ Return(p, log, "ok", local[p].result, NoKey)
    /\ UNCHANGED shared

\* lines 853-854: over capacity, the oldest key is searched (the search is
\* taken as one step)
CacheFindOldest(p) ==
    /\ pc[p] = "L853"
    /\ OverCapacity(cache)
    /\ Step(p, "L855", [local[p] EXCEPT !.oldest_key = OldestKey(cache)])
    /\ UNCHANGED shared

\* line 855: `del self.cache[oldest_key]`; a KeyError (another thread
\* deleted it first) is caught at line 915 and the call returns None
CacheEvict(p, log) ==
    /\ pc[p] = "L855"
    /\ IF HasKey(cache, local[p].oldest_key)
       THEN /\ cache' = Del(cache, local[p].oldest_key)
            /\ Return(p, log, "ok", local[p].result, local[p].oldest_key)
       ELSE /\ Return(p, log, "error", None, NoKey)
            /\ UNCHANGED cache
    /\ UNCHANGED <<request_timestamps, request_counts>>

\* one step of optimized_deepseek_call in thread p, once it has begun
AfterCall(p, log) ==
    \/ CacheTest(p)
    \/ CacheRead(p, log)
    \/ CacheHit(p, log)
    \/ CacheExpire(p, log)
    \/ WindowRead(p, log)
    \/ WindowWrite(p)
    \/ Admit(p)
    \/ Deny(p, log)
    \/ RecordAppend(p, log)
    \/ CountLoad(p)
    \/ CountStore(p)
    \/ Invoke(p)
    \/ Respond(p)
    \/ ResultTruthy(p)
    \/ ResultFalsy(p, log)
    \/ CacheStore(p)
    \/ CacheSizeOk(p, log)
    \/ CacheFindOldest(p)
    \/ CacheEvict(p, log)

\* one step of optimized_deepseek_call in thread p; the call begins with
\* some content, by a caller whose prompt is not followed
optimized_deepseek_call(p, log) ==
    \/ \E content \in Contents : Call(p, log, content) /\ UNCHANGED prompts
    \/ AfterCall(p, log)

\* ---------------------------------------------------- get_usage_stats
\* lines 857-872: the statistics are computed from the shared state, which
\* is left as it is
get_usage_stats ==
    LET minute_requests == Len(TrimWindow(request_timestamps, now))
        remaining == max_requests_per_minute - minute_requests
    IN [requests_last_minute |-> minute_requests,
        total_requests       |-> request_counts,
        cache_entries        |-> Len(cache),
        rate_limit_remaining |-> IF remaining > 0 THEN remaining ELSE 0]

GetUsageStats ==
    /\ \A p \in Procs : pc[p] = "idle"
    /\ usage_stats' = get_usage_stats
    /\ UNCHANGED <<now, shared, pc, local, ncalls, nkeys, history, admitted,
                   api_calls, caching_cache, prompts, docs>>

\* ------------------------------------- call_deepseek_api_with_caching
\* lines 210-252, the wrapper used by translation (356), embeddings (415),
\* batch language detection (561), batch translation (653) and OCR
\* enhancement (734). It keeps a cache of its own and calls
\* call_deepseek_api (238) itself. Its callers build the key from a prefix
\* of the text, as get_cache_key does.
call_deepseek_api_with_caching(content) ==
    LET key == get_cache_key(content)
        hit == Cached(caching_cache, key, now)
        c1  == IF HasKey(caching_cache, key) /\ ~hit
               THEN Del(caching_cache, key) ELSE caching_cache
    IN
    /\ \A p \in Procs : pc[p] = "idle"
    /\ ncalls < MaxCalls
    /\ content[1] <= nkeys + 1
    /\ ncalls' = ncalls + 1
    /\ nkeys' = IF content[1] > nkeys THEN content[1] ELSE nkeys
    /\ IF hit
       THEN UNCHANGED <<caching_cache, api_calls>>
       ELSE /\ api_calls' = api_calls + 1
            /\ \E r \in call_deepseek_api(ncalls + 1) :
                  caching_cache' =
                     IF Truthy(r)
                     THEN LET c2 == Put(c1, key, r, now)
                          IN IF Len(c2) > CACHING_CACHE_MAX
                             THEN Del(c2, OldestKey(c2)) ELSE c2
                     ELSE c1
    /\ usage_stats' = <<>>
    /\ UNCHANGED <<now, shared, pc, local, history, admitted, prompts, docs>>

\* --------------------------------------------------------- specifications
\* one request at a time: the calls follow each other
SeqNext == Tick \/ optimized_deepseek_call(1, TRUE)
SeqSpec == Init /\ [][SeqNext]_vars

\* the same, with the other operations of the service that reach the
\* optimizer's state or the upstream
ServiceNext ==
    \/ SeqNext
    \/ GetUsageStats
    \/ \E content \in Contents : call_deepseek_api_with_caching(content)
ServiceSpec == Init /\ [][ServiceNext]_vars

\* the threaded server (app.run, 3489-3494): the requests interleave
Next == Tick \/ \E p \in Procs : optimized_deepseek_call(p, FALSE)
Spec == Init /\ [][Next]_vars

\* =================================================== document functions
\* ------------------------------------------------------ Python helpers
Min(a, b) == IF a < b THEN a ELSE b
Max(a, b) == IF a > b THEN a ELSE b

\* least and greatest element of a non-empty set of integers
Least(S) == CHOOSE x \in S : \A y \in S : x <= y
Greatest(S) == CHOOSE x \in S : \A y \in S : x >= y

\* the elements of a set of integers in ascending order
RECURSIVE Ascending(_)
Ascending(S) == IF S = {} THEN <<>> ELSE <<Least(S)>> \o Ascending(S \ {Least(S)})

\* a slice bound of a sequence of length n: a negative bound counts from
\* the end, and every bound is clipped to 0..n
PyIndex(n, i) == IF i < 0 THEN Max(n + i, 0) ELSE Min(i, n)

\* s[a:b]
Slice(s, a, b) ==
    LET lo == PyIndex(Len(s), a)
        hi == PyIndex(Len(s), b)
    IN IF lo < hi THEN SubSeq(s, lo + 1, hi) ELSE <<>>

\* s[:n] for n >= 0
Prefix(s, n) == Slice(s, 0, n)

\* s.rfind(pat): the greatest offset at which pat occurs in s, or -1
rfind(s, pat) ==
    LET hits == {i \in 0..(Len(s) - Len(pat)) : SubSeq(s, i + 1, i + Len(pat)) = pat}
    IN IF hits = {} THEN -1 ELSE Greatest(hits)

\* the whitespace characters that occur in the texts
IsSpace(c) == c \in {" ", "\n"}

\* s.lstrip() and s.rstrip()
RECURSIVE lstrip(_)
lstrip(s) == IF s # <<>> /\ IsSpace(s[1]) THEN lstrip(Tail(s)) ELSE s
RECURSIVE rstrip(_)
rstrip(s) == IF s # <<>> /\ IsSpace(s[Len(s)]) THEN rstrip(SubSeq(s, 1, Len(s) - 1)) ELSE s

\* s.strip()
strip(s) == rstrip(lstrip(s))

\* -------------------------------------------- DocumentChunkProcessor
\* A text is a sequence of characters. A section marker word is written as
\* one capital letter: "E" for 'executive summary', "S" for 'summary', "B"
\* for 'background', "C" for 'chapter'; they stand in the order of
\* self.section_markers (934-939)
section_markers == <<"E", "S", "B", "C">>

\* importances are counted in tenths: 10 is 1.0, 3 is 0.3
\* _calculate_section_importance (981-1001)
calculate_section_importance(marker) ==
    CASE marker = "E" -> 10
      [] marker = "S" -> 9
      [] marker = "B" -> 4
      [] OTHER        -> 3

\* text.split('\n'): the offsets at which the lines start
LineStarts(text) == {0} \cup {i \in 1..Len(text) : text[i] = "\n"}

\* the line that starts at offset s
LineAt(text, s) ==
    LET ends == {i \in (s + 1)..Len(text) : text[i] = "\n"}
    IN SubSeq(text, s + 1, IF ends = {} THEN Len(text) ELSE Least(ends) - 1)

\* the markers found in a line, as places in section_markers
MarkersIn(line) ==
    {m \in 1..Len(section_markers) :
        \E i \in 1..Len(line) : line[i] = section_markers[m]}

\* lines 954-957: a line is a section header when it is not blank, is
\* shorter than LINE_MAX and contains a marker
IsHeader(line) ==
    LET line_clean == strip(line) IN
    /\ line_clean # <<>>
    /\ Len(line_clean) < LINE_MAX
    /\ MarkersIn(line_clean) # {}

\* parse_document_structure (941-979): structure['sections'], one entry per
\* header line, in the order of the lines; the first marker of the list
\* that the line contains decides (the `break` of line 973)
parse_document_structure(text) ==
    LET starts == Ascending(LineStarts(text))
        heads  == SelectSeq(starts, LAMBDA s : IsHeader(LineAt(text, s)))
    IN [k \in 1..Len(heads) |->
          LET line   == strip(LineAt(text, heads[k]))
              marker == section_markers[Least(MarkersIn(line))]
          IN [title      |-> line,
              marker     |-> marker,
              position   |-> heads[k],
              importance |-> calculate_section_importance(marker)]]

\* line 1032
sentence_ends == << <<".">>, <<"!">>, <<"?">>, <<"\n", "\n">> >>

\* line 1030: the text around the raw cut point
boundary_text(text, chunk_end) ==
    Slice(text, chunk_end - BOUNDARY, chunk_end + BOUNDARY)

\* line 1036: where the k-th terminator was last found in boundary_text
pos(text, chunk_end, k) == rfind(boundary_text(text, chunk_end), sentence_ends[k])

\* line 1038
actual_pos(text, chunk_end, k) == chunk_end - BOUNDARY + pos(text, chunk_end, k) + 1

\* lines 1037-1041: the terminators that set best_break
Breaking(text, chunk_end) ==
    {k \in 1..Len(sentence_ends) :
        /\ pos(text, chunk_end, k) # -1
        /\ chunk_end - BOUNDARY_BACK < actual_pos(text, chunk_end, k)
        /\ actual_pos(text, chunk_end, k) < chunk_end + BOUNDARY}

\* lines 1025-1043: the end of the chunk that starts at current_pos. The
\* first terminator of the list that is found in range decides; a
\* best_break of 0 is falsy and leaves the raw cut point
ChunkEnd(text, chunk_size, current_pos) ==
    LET chunk_end == Min(current_pos + chunk_size, Len(text))
        ks == Breaking(text, chunk_end)
    IN IF chunk_end < Len(text) /\ ks # {}
                                /\ actual_pos(text, chunk_end, Least(ks)) # 0
       THEN actual_pos(text, chunk_end, Least(ks))
       ELSE chunk_end

\* (faulty variant) a chunk starts where the one before ended
ChunkStart_NoOverlap(current_pos, overlap, chunk_id) == current_pos

\* line 1046
ChunkStart(current_pos, overlap, chunk_id) ==
    Max(0, current_pos - (IF chunk_id > 0 THEN overlap ELSE 0))

\* the sections that lie in positions start_pos..end_pos (1052-1055, 1080)
SectionsIn(sections, start_pos, end_pos) ==
    SelectSeq(sections, LAMBDA s : start_pos <= s.position /\ s.position <= end_pos)

\* _calculate_chunk_importance (1077-1085)
calculate_chunk_importance(start_pos, end_pos, sections) ==
    LET inside == SectionsIn(sections, start_pos, end_pos)
    IN Greatest({BASE_IMPORTANCE} \cup {inside[i].importance : i \in 1..Len(inside)})

\* (faulty variant) a text of exactly chunk_size characters is cut in the loop
FitsOneChunk_Strict(text, chunk_size) == Len(text) < chunk_size

\* line 1005
FitsOneChunk(text, chunk_size) == Len(text) <= chunk_size

\* lines 1006-1014: the chunk returned for a short text
WholeText(text) ==
    [text              |-> text,
     chunk_id          |-> 0,
     start_pos         |-> 0,
     end_pos           |-> Len(text),
     importance        |-> FULL_IMPORTANCE,
     contains_sections |-> <<>>,
     is_complete       |-> TRUE]

\* lines 1025-1066: the chunk built by one iteration of the loop
NextChunk(text, chunk_size, overlap, sections, current_pos, chunk_id) ==
    LET chunk_end   == ChunkEnd(text, chunk_size, current_pos)
        chunk_start == ChunkStart(current_pos, overlap, chunk_id)
        chunk_text  == strip(Slice(text, chunk_start, chunk_end))
        contained   == SectionsIn(sections, chunk_start, chunk_end)
    IN [text              |-> chunk_text,
        chunk_id          |-> chunk_id,
        start_pos         |-> chunk_start,
        end_pos           |-> chunk_end,
        importance        |-> calculate_chunk_importance(chunk_start, chunk_end, sections),
        contains_sections |-> [i \in 1..Len(contained) |-> contained[i].title],
        is_complete       |-> chunk_end >= Len(text),
        length            |-> Len(chunk_text)]

\* a call create_intelligent_chunks(text) on a processor built with
\* chunk_size and overlap (931-933), about to run line 1005
ChunkCall(text, chunk_size, overlap) ==
    [pc |-> "L1005", text |-> text, chunk_size |-> chunk_size,
     overlap |-> overlap, sections |-> <<>>, current_pos |-> 0, chunks |-> <<>>]

\* lines 1005-1014: a short text is returned as one chunk
SingleChunk ==
    /\ chunking.pc = "L1005"
    /\ FitsOneChunk(chunking.text, chunking.chunk_size)
    /\ chunking' = [chunking EXCEPT !.pc = "returned",
                                    !.chunks = <<WholeText(chunking.text)>>]
    /\ UNCHANGED <<optimizer, handlers, normalizing, prioritizing, assembling>>

\* lines 1017-1021: a longer text is parsed (structure['sections'] is kept
\* for the loop) and the loop is entered
EnterLoop ==
    /\ chunking.pc = "L1005"
    /\ ~FitsOneChunk(chunking.text, chunking.chunk_size)
    /\ chunking' = [chunking EXCEPT !.pc = "L1023",
                                    !.sections = parse_document_structure(chunking.text)]
    /\ UNCHANGED <<optimizer, handlers, normalizing, prioritizing, assembling>>

\* lines 1023-1073: one iteration of `while current_pos < len(text)`. The
\* loop of the model gives up after MaxChunks chunks
CutChunk ==
    /\ chunking.pc = "L1023"
    /\ chunking.current_pos < Len(chunking.text)
    /\ Len(chunking.chunks) < MaxChunks
    /\ LET chunk == NextChunk(chunking.text, chunking.chunk_size, chunking.overlap,
                              chunking.sections, chunking.current_pos,
                              Len(chunking.chunks))
       IN chunking' = [chunking EXCEPT !.chunks = Append(@, chunk),
                                       !.current_pos = chunk.end_pos]
    /\ UNCHANGED <<optimizer, handlers, normalizing, prioritizing, assembling>>

\* line 1075: the loop has ended and the chunks are returned
ReturnChunks ==
    /\ chunking.pc = "L1023"
    /\ chunking.current_pos >= Len(chunking.text)
    /\ chunking' = [chunking EXCEPT !.pc = "returned"]
    /\ UNCHANGED <<optimizer, handlers, normalizing, prioritizing, assembling>>

\* one step of create_intelligent_chunks
create_intelligent_chunks == SingleChunk \/ EnterLoop \/ CutChunk \/ ReturnChunks

\* the texts of at most MaxTextLen characters, and the longer texts of
\* letters and full stops
Texts ==
    UNION ({[1..n -> ChunkChars] : n \in 0..MaxTextLen}
           \cup {[1..n -> PlainChars] : n \in (MaxTextLen + 1)..MaxPlainLen})

\* a processor with any chunk size and any smaller overlap is given any text
ChunkInit ==
    /\ OptimizerInit
    /\ HandlersAtRest
    /\ \E text \in Texts, chunk_size \in 1..MaxChunkSize :
          \E overlap \in 0..(chunk_size - 1) :
             chunking = ChunkCall(text, chunk_size, overlap)
    /\ normalizing = NoCall
    /\ prioritizing = NoCall
    /\ assembling = NoCall

ChunkNext == create_intelligent_chunks
ChunkSpec == ChunkInit /\ [][ChunkNext]_vars

\* The document of the 10,000-character scenario, for the processor
\* chunk_processor = DocumentChunkProcessor() of line 1119 (3000, 500):
\* three chunk sizes and two overlaps long, as 10,000 = 3 * 3000 + 2 * 500
ScenarioLen == 3 * DEFAULT_CHUNK_SIZE + 2 * DEFAULT_OVERLAP

\* a text of letters with marks at positions p1 < p2 < p3 (0: no mark);
\* the first mark is the character c, the others are full stops
Marked(p1, c, p2, p3) ==
    [n \in 1..ScenarioLen |->
        IF n = p1 THEN c ELSE IF n = p2 \/ n = p3 THEN "." ELSE "a"]

\* the texts of the scenario: up to three marks anywhere, the first a full
\* stop or a space
ScenarioInit ==
    /\ OptimizerInit
    /\ HandlersAtRest
    /\ \E p1, p2, p3 \in 0..ScenarioLen, c \in {".", " "} :
          /\ p2 = 0 \/ (p1 > 0 /\ p1 < p2)
          /\ p3 = 0 \/ (p2 > 0 /\ p2 < p3)
          /\ chunking = ChunkCall(Marked(p1, c, p2, p3),
                                  DEFAULT_CHUNK_SIZE, DEFAULT_OVERLAP)
    /\ normalizing = NoCall
    /\ prioritizing = NoCall
    /\ assembling = NoCall

\* the text is longer than a chunk: line 1005 sends it to the loop
ScenarioNext == EnterLoop \/ CutChunk \/ ReturnChunks
ScenarioSpec == ScenarioInit /\ [][ScenarioNext]_vars

\* ------------------------------------------------- normalize_analysis
\* Python values are records tagged with their type. Confidences are
\* counted in hundredths: 100 is 1.0, 75 is 0.75, 10 is 0.1.
PyNone     == [type |-> "NoneType"]
PyNum(n)   == [type |-> "float", num |-> n]
PyInt(n)   == [type |-> "int", num |-> n]
PyNaN      == [type |-> "nan"]              \* float('nan'), JSON's NaN
PyBool(b)  == [type |-> "bool", truth |-> b]
PyStr(s)   == [type |-> "str", chars |-> s]
PyList(l)  == [type |-> "list", items |-> l]
PyDict(f)  == [type |-> "dict", fields |-> f]

\* a dict is written with all the keys that the function names; a key that
\* the dict does not hold has this value
Absent == [type |-> "absent"]

\* {}
EmptyDict == PyDict([nothing |-> Absent])

\* bool(v), as `or` and `if not` take it
PyTruthy(v) ==
    CASE v.type = "NoneType" -> FALSE
      [] v.type = "float"    -> v.num # 0
      [] v.type = "int"      -> v.num # 0
      [] v.type = "nan"      -> TRUE
      [] v.type = "bool"     -> v.truth
      [] v.type = "str"      -> v.chars # ""
      [] v.type = "list"     -> v.items # <<>>
      [] v.type = "dict"     -> \E k \in DOMAIN v.fields : v.fields[k] # Absent
      [] OTHER               -> FALSE

\* d.get(k, default)
Get(d, k, default) == IF d.fields[k] = Absent THEN default ELSE d.fields[k]

\* d.get(k) or default
GetOr(d, k, default) ==
    IF PyTruthy(Get(d, k, PyNone)) THEN Get(d, k, PyNone) ELSE default

\* line 9
VALID_KMRL_ROLES == {"LEADERSHIP", "HR", "FINANCE", "ENGINEER", "ADMIN"}

\* (faulty variant) the roles are returned as they came
validate_and_filter_roles_Unfiltered(roles_list) ==
    IF roles_list.type # "list" THEN <<"LEADERSHIP">> ELSE roles_list.items

\* validate_and_filter_roles (11-25); the items of a list of roles are strings
validate_and_filter_roles(roles_list) ==
    IF roles_list.type # "list"
    THEN <<"LEADERSHIP">>
    ELSE LET valid_roles == SelectSeq(roles_list.items,
                                      LAMBDA role : role \in VALID_KMRL_ROLES)
         IN IF valid_roles # <<>> THEN valid_roles ELSE <<"LEADERSHIP">>

\* the strings that float() converts, with their values
NumericStrings == {"0", "0.5", "2"}
ParseFloat(s) == CASE s = "0" -> 0 [] s = "0.5" -> 50 [] s = "2" -> 200

\* float(x) succeeds
Convertible(x) ==
    \/ x.type \in {"float", "nan", "bool"}
    \/ x.type = "str" /\ x.chars \in NumericStrings

\* (faulty variant) no lower bound
Clamp_NoFloor(n) == Min(CONF_MAX, n)

\* max(0.1, min(1.0, n)), line 30
Clamp(n) == Max(CONF_MIN, Min(CONF_MAX, n))

\* clamp01 (27-32). min(1.0, nan) is 1.0, as no comparison with nan holds;
\* float(True) is 1.0
clamp01(x) ==
    IF ~Convertible(x) THEN CONF_DEFAULT
    ELSE CASE x.type = "float" -> Clamp(x.num)
           [] x.type = "nan"   -> Clamp(CONF_MAX)
           [] x.type = "bool"  -> Clamp(IF x.truth THEN CONF_MAX ELSE 0)
           [] x.type = "str"   -> Clamp(ParseFloat(x.chars))

\* a dict recommended_roles that holds nothing
NoRec == PyDict([roles |-> Absent, confidence |-> Absent, reasoning |-> Absent])

\* the record that lines 78-82 build
Recommended(roles, conf, reasoning) ==
    PyDict([roles |-> PyList(roles), confidence |-> PyNum(conf),
            reasoning |-> reasoning])

\* the record of lines 40-54 and 93-106, with the given pass-through fields
Defaulted(summary_en, summary_ml, tags, primary_language, sensitivity_level, document_type, reasoning) ==
    PyDict([summary_en        |-> summary_en,
            summary_ml        |-> summary_ml,
            tags              |-> tags,
            primary_language  |-> primary_language,
            sensitivity_level |-> sensitivity_level,
            document_type     |-> document_type,
            recommended_roles |-> Recommended(<<"LEADERSHIP">>, CONF_DEFAULT,
                                              PyStr(reasoning)),
            retention_recommendation |->
                PyDict([days |-> PyNum(182500), reason |-> PyStr("Default policy")]),
            analysis_metadata |-> EmptyDict])

\* lines 38-54: the argument is not a dict
InvalidStructure ==
    Defaulted(PyStr(""), PyStr(""), PyList(<<>>), PyStr("en"), PyStr("MEDIUM"),
              PyStr("other"), "Defaulted due to invalid analysis structure")

\* lines 91-106: an exception was raised in lines 56-90
NormalizationFailed(analysis) ==
    Defaulted(Get(analysis, "summary_en", PyStr("")),
              Get(analysis, "summary_ml", PyStr("")),
              Get(analysis, "tags", PyList(<<>>)),
              Get(analysis, "primary_language", PyStr("en")),
              Get(analysis, "sensitivity_level", PyStr("MEDIUM")),
              Get(analysis, "document_type", PyStr("other")),
              "Defaulted due to exception in normalization")

\* lines 61-76: the confidence written to the result
Confidence(rec) ==
    LET conf == clamp01(Get(rec, "confidence", PyNum(CONF_DEFAULT)))
    IN IF conf = 0 THEN CONF_LIFTED ELSE conf

\* lines 56-90: the dict is completed in place and returned
Completed(analysis, rec) ==
    LET roles == validate_and_filter_roles(
                     GetOr(rec, "roles", PyList(<<"LEADERSHIP">>)))
        reasoning == GetOr(rec, "reasoning",
                           PyStr("Combined AI and heuristic analysis."))
    IN PyDict([analysis.fields EXCEPT
          !.recommended_roles = Recommended(roles, Confidence(rec), reasoning),
          !.sensitivity_level =
              IF PyTruthy(Get(analysis, "sensitivity_level", PyNone))
              THEN @ ELSE PyStr("MEDIUM"),
          !.document_type =
              IF PyTruthy(Get(analysis, "document_type", PyNone))
              THEN @ ELSE PyStr("other")])

\* normalize_analysis (34-106). `rec.get` of line 57 raises AttributeError
\* when recommended_roles is neither falsy nor a dict
normalize_analysis(analysis) ==
    IF analysis.type # "dict"
    THEN InvalidStructure
    ELSE LET rec == GetOr(analysis, "recommended_roles", NoRec)
         IN IF rec.type # "dict"
            THEN NormalizationFailed(analysis)
            ELSE Completed(analysis, rec)

\* the lists of at most MaxRoles role names
RoleLists == UNION {[1..n -> RoleNames] : n \in 0..MaxRoles}

\* values of recommended_roles['roles']
RolesValues == {Absent, PyNone, PyStr("HR")} \cup {PyList(l) : l \in RoleLists}

\* values of recommended_roles['confidence']
ConfidenceValues ==
    {Absent, PyNone, PyNaN, PyBool(FALSE), PyBool(TRUE), PyStr("high"), PyList(<<>>)}
    \cup {PyNum(n) : n \in {-50, 0, 5, 10, 50, 100, 250}}
    \cup {PyStr(s) : s \in NumericStrings}

\* values of analysis['recommended_roles']
RecValues ==
    {Absent, PyNone, PyStr("x"), PyNum(5), PyList(<<"HR">>)}
    \cup {PyDict([roles |-> r, confidence |-> c, reasoning |-> t]) :
             r \in RolesValues, c \in ConfidenceValues,
             t \in {Absent, PyStr("as the model said")}}

\* the arguments given to normalize_analysis: values that are no dict, and
\* dicts with any of the fields missing
Analyses ==
    {PyNone, PyStr("not json"), PyList(<<>>)}
    \cup {PyDict([summary_en        |-> s,
                  summary_ml        |-> Absent,
                  tags              |-> t,
                  primary_language  |-> Absent,
                  sensitivity_level |-> l,
                  document_type     |-> d,
                  recommended_roles |-> r,
                  retention_recommendation |-> Absent,
                  analysis_metadata |-> Absent]) :
             s \in {Absent, PyStr("a summary")},
             t \in {Absent, PyList(<<"tag">>)},
             l \in {Absent, PyStr(""), PyStr("HIGH")},
             d \in {Absent, PyStr("report")},
             r \in RecValues}

\* normalize_analysis is applied to the argument
Normalize ==
    /\ normalizing.pc = "L36"
    /\ normalizing' = [normalizing EXCEPT
                          !.pc = "returned",
                          !.result = normalize_analysis(normalizing.analysis)]
    /\ UNCHANGED <<optimizer, handlers, chunking, prioritizing, assembling>>

NormalizeInit ==
    /\ OptimizerInit
    /\ HandlersAtRest
    /\ chunking = NoCall
    /\ \E analysis \in Analyses :
          normalizing = [pc |-> "L36", analysis |-> analysis, result |-> PyNone]
    /\ prioritizing = NoCall
    /\ assembling = NoCall

NormalizeNext == Normalize
NormalizeSpec == NormalizeInit /\ [][NormalizeNext]_vars

\* ------------------------------------ prioritize_chunks_for_processing
\* the key of line 1090: (-importance, start_pos), compared as Python
\* compares tuples
KeyLess(a, b) ==
    \/ -a.importance < -b.importance
    \/ -a.importance = -b.importance /\ a.start_pos < b.start_pos

\* sorted() is stable: the chunk at i comes before the chunk at j when its
\* key is less, or when the keys are equal and it came first
Before(chunks, i, j) ==
    \/ KeyLess(chunks[i], chunks[j])
    \/ ~KeyLess(chunks[j], chunks[i]) /\ i < j

\* line 1090: sorted(chunks, key=lambda x: (-x['importance'], x['start_pos']))
sorted(chunks) ==
    LET place(i) == 1 + Cardinality({j \in DOMAIN chunks : Before(chunks, j, i)})
    IN [p \in DOMAIN chunks |-> chunks[CHOOSE i \in DOMAIN chunks : place(i) = p]]

\* line 1092: `if max_chunks:`
Cut(max_chunks) == PyTruthy(max_chunks)

\* lines 1087-1095
prioritize_chunks_for_processing(chunks, max_chunks) ==
    LET sorted_chunks == sorted(chunks)
    IN IF Cut(max_chunks)
       THEN Slice(sorted_chunks, 0, max_chunks.num)
       ELSE sorted_chunks

\* the function is applied to the arguments
Prioritize ==
    /\ prioritizing.pc = "L1090"
    /\ prioritizing' = [prioritizing EXCEPT
                           !.pc = "returned",
                           !.result = prioritize_chunks_for_processing(
                                          prioritizing.chunks, prioritizing.max_chunks)]
    /\ UNCHANGED <<optimizer, handlers, chunking, normalizing, assembling>>

\* importances that _calculate_chunk_importance gives: the base, the
\* whole text's, and a section's
Importances ==
    {BASE_IMPORTANCE, FULL_IMPORTANCE, calculate_section_importance("S")}

\* lists of chunks, numbered as create_intelligent_chunks numbers them
ChunkLists ==
    UNION {{[i \in 1..n |-> [chunk_id   |-> i - 1,
                             importance |-> imp[i],
                             start_pos  |-> start[i]]] :
               imp \in [1..n -> Importances], start \in [1..n -> 0..MaxStartPos]} :
           n \in 0..MaxListLen}

\* max_chunks is left out (None), or is an integer; the callers pass 8
MaxChunksValues == {PyNone} \cup {PyInt(n) : n \in 0..(MaxListLen + 1)}

PrioritizeInit ==
    /\ OptimizerInit
    /\ HandlersAtRest
    /\ chunking = NoCall
    /\ normalizing = NoCall
    /\ \E chunks \in ChunkLists, max_chunks \in MaxChunksValues :
          prioritizing = [pc |-> "L1090", chunks |-> chunks,
                          max_chunks |-> max_chunks, result |-> <<>>]
    /\ assembling = NoCall

PrioritizeNext == Prioritize
PrioritizeSpec == PrioritizeInit /\ [][PrioritizeNext]_vars

\* ------------------------------- chat_with_document: context assembly
\* relevance scores are counted in hundredths
\* the characters of a chunk text: the text of chunk c of n characters
Letters == <<"a", "b", "c", "d">>
TextOf(c, n) == [k \in 1..n |-> Letters[((k + c) % Len(Letters)) + 1]]

\* ', '.join(titles)
RECURSIVE Joined(_)
Joined(titles) ==
    IF titles = <<>> THEN <<>>
    ELSE IF Len(titles) = 1 THEN titles[1]
    ELSE titles[1] \o <<",", " ">> \o Joined(Tail(titles))

\* lines 2841-2843: "[Section: ...]\n" when the chunk contains sections
section_header(chunk) ==
    IF chunk.contains_sections # <<>>
    THEN <<"[", "S", "e", "c", "t", "i", "o", "n", ":", " ">>
            \o Joined(chunk.contains_sections) \o <<"]", "\n">>
    ELSE <<>>

\* line 2845: chunk_context = f"{section_header}{chunk_text}"
chunk_context(chunk) == section_header(chunk) \o chunk.text

\* line 2826: relevant_chunks.sort(key=relevance_score, reverse=True); the
\* sort is stable, so equal scores keep their order
MoreRelevant(l, i, j) ==
    \/ l[i].relevance_score > l[j].relevance_score
    \/ l[i].relevance_score = l[j].relevance_score /\ i < j

SortedByRelevance(l) ==
    LET place(i) == 1 + Cardinality({j \in DOMAIN l : MoreRelevant(l, j, i)})
    IN [p \in DOMAIN l |-> l[CHOOSE i \in DOMAIN l : place(i) = p]]

\* line 2848: adding the chunk would exceed the context limit
Overflows(total_context_length, context) ==
    total_context_length + Len(context) > max_context_length

\* line 2850
remaining_space(total_context_length) == max_context_length - total_context_length

\* line 2851: `if remaining_space > 500`
Meaningful(space) == space > MEANINGFUL_SPACE

\* lines 2853 and 2856: the part of the context made from a chunk
ContextPart(i, chunk_data, context) ==
    [section |-> i + 1, score |-> chunk_data.relevance_score, chunk_context |-> context]

\* chat_with_document has found the relevant chunks (2809-2823)
AssembleCall(relevant_chunks) ==
    [pc |-> "L2826", relevant_chunks |-> relevant_chunks, top_chunks |-> <<>>,
     i |-> 0, context_parts |-> <<>>, total_context_length |-> 0]

\* lines 2826-2834: sort by relevance, take the top chunks, start empty
TakeTopChunks ==
    /\ assembling.pc = "L2826"
    /\ assembling' = [assembling EXCEPT
          !.pc = "L2836",
          !.top_chunks = Slice(SortedByRelevance(assembling.relevant_chunks), 0, TOP_CHUNKS),
          !.i = 0,
          !.context_parts = <<>>,
          !.total_context_length = 0]
    /\ UNCHANGED <<optimizer, handlers, chunking, normalizing, prioritizing>>

\* lines 2836-2857: the chunk fits and is appended whole
AppendChunk ==
    /\ assembling.pc = "L2836"
    /\ assembling.i < Len(assembling.top_chunks)
    /\ LET chunk_data == assembling.top_chunks[assembling.i + 1]
           context == chunk_context(chunk_data.chunk)
       IN /\ ~Overflows(assembling.total_context_length, context)
          /\ assembling' = [assembling EXCEPT
                !.context_parts = Append(@, ContextPart(assembling.i, chunk_data, context)),
                !.total_context_length = @ + Len(context),
                !.i = @ + 1]
    /\ UNCHANGED <<optimizer, handlers, chunking, normalizing, prioritizing>>

\* lines 2848-2854: the chunk does not fit, meaningful space remains: the
\* chunk is cut to the remaining space, marked "..." and appended; break
TruncateChunk ==
    /\ assembling.pc = "L2836"
    /\ assembling.i < Len(assembling.top_chunks)
    /\ LET chunk_data == assembling.top_chunks[assembling.i + 1]
           context == chunk_context(chunk_data.chunk)
           space == remaining_space(assembling.total_context_length)
       IN /\ Overflows(assembling.total_context_length, context)
          /\ Meaningful(space)
          /\ assembling' = [assembling EXCEPT
                !.pc = "L2860",
                !.context_parts = Append(@,
                    ContextPart(assembling.i, chunk_data,
                                Prefix(context, space) \o <<".", ".", ".">>))]
    /\ UNCHANGED <<optimizer, handlers, chunking, normalizing, prioritizing>>

\* lines 2848-2854: the chunk does not fit and too little space remains: break
DropChunk ==
    /\ assembling.pc = "L2836"
    /\ assembling.i < Len(assembling.top_chunks)
    /\ LET chunk_data == assembling.top_chunks[assembling.i + 1]
           context == chunk_context(chunk_data.chunk)
           space == remaining_space(assembling.total_context_length)
       IN /\ Overflows(assembling.total_context_length, context)
          /\ ~Meaningful(space)
          /\ assembling' = [assembling EXCEPT !.pc = "L2860"]
    /\ UNCHANGED <<optimizer, handlers, chunking, normalizing, prioritizing>>

\* line 2836: every top chunk has been appended
EndOfChunks ==
    /\ assembling.pc = "L2836"
    /\ assembling.i = Len(assembling.top_chunks)
    /\ assembling' = [assembling EXCEPT !.pc = "L2860"]
    /\ UNCHANGED <<optimizer, handlers, chunking, normalizing, prioritizing>>

\* the chunks tried: a text length, whether the chunk contains the section
\* "S", and a relevance score
ChunkKinds ==
    {<<4, FALSE, 9>>, <<5, FALSE, 30>>, <<4, TRUE, 30>>,
     <<DEFAULT_CHUNK_SIZE + 1, FALSE, 9>>}

\* the lists of relevant chunks, in the order of the document
RelevantLists ==
    UNION {{[i \in 1..n |->
               [chunk |-> [chunk_id          |-> i - 1,
                           text              |-> TextOf(i - 1, kind[i][1]),
                           contains_sections |-> IF kind[i][2] THEN << <<"S">> >> ELSE <<>>],
                relevance_score |-> kind[i][3]]] :
              kind \in [1..n -> ChunkKinds]} :
           n \in 0..MaxRelevant}

AssembleInit ==
    /\ OptimizerInit
    /\ HandlersAtRest
    /\ chunking = NoCall
    /\ normalizing = NoCall
    /\ prioritizing = NoCall
    /\ \E relevant_chunks \in RelevantLists :
          assembling = AssembleCall(relevant_chunks)

AssembleNext ==
    TakeTopChunks \/ AppendChunk \/ TruncateChunk \/ DropChunk \/ EndOfChunks
AssembleSpec == AssembleInit /\ [][AssembleNext]_vars

\* ------------------------------------------------ chat_with_document
\* str.lower() on the characters of the texts
LowerChar(c) ==
    CASE c = "S" -> "s" [] c = "E" -> "e" [] c = "B" -> "b" [] c = "C" -> "c"
      [] OTHER -> c

lower(s) == [k \in DOMAIN s |-> LowerChar(s[k])]

\* set(s.split()): the maximal runs of characters that are not whitespace
split(s) ==
    {SubSeq(s, a, b) : <<a, b>> \in
        {p \in (DOMAIN s) \X (DOMAIN s) :
            /\ p[1] <= p[2]
            /\ \A k \in p[1]..p[2] : ~IsSpace(s[k])
            /\ p[1] = 1 \/ IsSpace(s[p[1] - 1])
            /\ p[2] = Len(s) \/ IsSpace(s[p[2] + 1])}}

\* `keyword in text`
Contains(text, keyword) ==
    \E a \in 0..(Len(text) - Len(keyword)) :
       SubSeq(text, a + 1, a + Len(keyword)) = keyword

\* line 2810: the words of the question in both languages
question_keywords(question_en, question_ml) ==
    split(lower(question_en)) \cup split(lower(question_ml))

\* lines 2814-2818: (keyword_matches / max(len(question_keywords), 1)) * 0.7
\* + chunk['importance'] * 0.3, counted in hundredths of one
\* max(len(question_keywords), 1)-th, so that the scores of one request
\* compare as the code's do
relevance_score(chunk, keywords) ==
    LET chunk_words     == split(lower(chunk.text))
        keyword_matches == Cardinality(keywords \cap chunk_words)
    IN keyword_matches * 70 + chunk.importance * 3 * Max(Cardinality(keywords), 1)

\* line 2820: relevance_score > 0.1 or a keyword occurs in the chunk text
IsRelevant(chunk, keywords) ==
    \/ relevance_score(chunk, keywords) > 10 * Max(Cardinality(keywords), 1)
    \/ \E keyword \in keywords : Contains(lower(chunk.text), keyword)

\* lines 2809-2823: the relevant chunks with their scores, in the order of
\* the chunks
relevant_chunks(chunks, keywords) ==
    LET kept == SelectSeq(chunks, LAMBDA chunk : IsRelevant(chunk, keywords))
    IN [k \in DOMAIN kept |->
          [chunk |-> kept[k], relevance_score |-> relevance_score(kept[k], keywords)]]

\* a chat request that passed the validation of lines 2781-2791 and whose
\* question has been translated (2801-2802) waits for the chunks of line 2805
ChatCall(question_en, question_ml) ==
    [pc |-> "L2805", question_en |-> question_en, question_ml |-> question_ml]

\* lines 2805-2823: create_intelligent_chunks has returned; the chunks that
\* are relevant to the question are collected
FindRelevantChunks ==
    /\ assembling.pc = "L2805"
    /\ chunking.pc = "returned"
    /\ assembling' = AssembleCall(
          relevant_chunks(chunking.chunks,
                          question_keywords(assembling.question_en,
                                            assembling.question_ml)))
    /\ UNCHANGED <<optimizer, handlers, chunking, normalizing, prioritizing>>

\* round(x * 100, 1) of a fraction num / den, in tenths of a percent
Percentage(num, den) == (2000 * num + den) \div (2 * den)

\* lines 2911-2918: response_data['context_metadata']
context_metadata(chunks, top_chunks, total_context_length, document_text) ==
    [total_chunks           |-> Len(chunks),
     relevant_chunks_used   |-> Len(top_chunks),
     context_coverage_chars |-> total_context_length,
     document_total_chars   |-> Len(document_text),
     coverage_percentage    |-> Percentage(total_context_length, Len(document_text))]

\* lines 2860-2921: the context is joined, the answer is asked for and the
\* response is returned with its metadata
RespondToChat ==
    /\ assembling.pc = "L2860"
    /\ chunking.pc = "returned"
    /\ assembling' = [pc               |-> "responded",
                      top_chunks       |-> assembling.top_chunks,
                      context_parts    |-> assembling.context_parts,
                      context_metadata |-> context_metadata(
                          chunking.chunks, assembling.top_chunks,
                          assembling.total_context_length, chunking.text)]
    /\ UNCHANGED <<optimizer, handlers, chunking, normalizing, prioritizing>>

\* the documents tried: n letters, of which those from offset p on, up to
\* w of them, are spaces instead
Document(n, p, w) ==
    [k \in 1..n |-> IF k > p /\ k <= p + w THEN " " ELSE "a"]

\* where the run of spaces starts: in the third chunk of the processor of
\* line 1119, after the end of the second
SpacesFrom == 2 * DEFAULT_CHUNK_SIZE

Documents ==
    {Document(n, SpacesFrom, w) : n \in 1..MaxDocLen, w \in 0..MaxSpaces}
    \cup {<<"S", "\n">> \o Document(n, 0, 0) : n \in 1..MaxDocLen}

\* the questions tried, and what translate_text may make of them
Questions == {<<"a">>, <<"z">>, <<"a", " ", "z">>, <<"s">>}

\* a valid request: a document that is not blank and a question
ChatInit ==
    /\ OptimizerInit
    /\ HandlersAtRest
    /\ \E document_text \in Documents :
          /\ strip(document_text) # <<>>
          /\ chunking = ChunkCall(document_text, DEFAULT_CHUNK_SIZE, DEFAULT_OVERLAP)
    /\ normalizing = NoCall
    /\ prioritizing = NoCall
    /\ \E question_en \in Questions :
          \E question_ml \in {question_en, <<"z">>} :
             assembling = ChatCall(question_en, question_ml)

ChatNext ==
    \/ SingleChunk \/ EnterLoop \/ CutChunk \/ ReturnChunks
    \/ FindRelevantChunks
    \/ TakeTopChunks \/ AppendChunk \/ TruncateChunk \/ DropChunk \/ EndOfChunks
    \/ RespondToChat
ChatSpec == ChatInit /\ [][ChatNext]_vars

\* ------------------------------------------------ find_relevant_images
\* the score of one image (1541-1562). Quality scores are counted in
\* tenths; a relevance score is counted in units of
\* 1 / (200 * max(len(query_words), 1)), in which every factor is whole.
\* `q_word in i_word or i_word in q_word`
Overlap(q_word, i_word) == Contains(i_word, q_word) \/ Contains(q_word, i_word)

\* line 1550: max(len(query_words), 1)
Divisor(query_words) == Max(Cardinality(query_words), 1)

\* lines 1548-1551: len(common_words) / max(len(query_words), 1), times 0.6
word_factor(query_words, image_words) ==
    120 * Cardinality(query_words \cap image_words)

\* lines 1554-1559: 0.5 is added for every query word longer than
\* MEANINGFUL_WORD characters and every image word that overlap
substring_hits(query_words, image_words) ==
    Cardinality({p \in query_words \X image_words :
                    Len(p[1]) > MEANINGFUL_WORD /\ Overlap(p[1], p[2])})

\* lines 1560-1561: min(substring_score / max(len(query_words), 1), 1.0),
\* times 0.3
substring_factor(query_words, image_words) ==
    30 * Min(substring_hits(query_words, image_words), 2 * Divisor(query_words))

\* lines 1564-1565: image.get('quality_score', 0.5), times 0.1
quality_factor(query_words, quality_score) ==
    2 * Get(PyDict([quality_score |-> quality_score]), "quality_score",
            PyNum(QUALITY_DEFAULT)).num * Divisor(query_words)

\* line 1568: relevance_score = sum(factors)
image_relevance(query_words, image_words, quality_score) ==
    word_factor(query_words, image_words)
       + substring_factor(query_words, image_words)
       + quality_factor(query_words, quality_score)

\* the score of the image is computed
ScoreImage ==
    /\ scoring.pc = "L1541"
    /\ scoring' = [scoring EXCEPT
                      !.pc = "L1571",
                      !.relevance_score = image_relevance(scoring.query_words,
                                                          scoring.image_words,
                                                          scoring.quality_score)]
    /\ UNCHANGED <<optimizer, chunking, normalizing, prioritizing, assembling,
                   batching, answering>>

\* the words of the queries and of the image texts
WordPool ==
    {<<"r", "a", "i">>, <<"r", "a", "i", "l">>, <<"r", "a", "i", "l", "s">>,
     <<"t", "r", "a", "i", "l">>, <<"m", "a", "p", "s">>}

\* the quality hints: none, 0.0, 0.5 and 1.0
QualityScores == {Absent, PyNum(0), PyNum(5), PyNum(10)}

ImageInit ==
    /\ OptimizerInit
    /\ chunking = NoCall
    /\ normalizing = NoCall
    /\ prioritizing = NoCall
    /\ assembling = NoCall
    /\ \E query_words \in SUBSET WordPool, image_words \in SUBSET WordPool,
          quality_score \in QualityScores :
          /\ Cardinality(query_words) <= MaxWords
          /\ Cardinality(image_words) <= MaxWords
          /\ scoring = [pc |-> "L1541", query_words |-> query_words,
                        image_words |-> image_words,
                        quality_score |-> quality_score, relevance_score |-> 0]
    /\ batching = NoCall
    /\ answering = NoCall

ImageNext == ScoreImage
ImageSpec == ImageInit /\ [][ImageNext]_vars

\* -------------------------------------------- deepseek_batch_processing
\* A result is identified by the function that computed it, the text it
\* was computed for and the language it was translated to. Texts are
\* numbered; NoText and NoLang stand where a result has none.
NoText == 0
NoLang == "none"
Result(by, text, target_lang) == [by |-> by, text |-> text, target_lang |-> target_lang]

\* the results of the functions that process one request (254, 329, 389, 702)
deepseek_enhanced_language_detection(text) ==
    Result("deepseek_enhanced_language_detection", text, NoLang)
deepseek_enhanced_translation(text, target_lang) ==
    Result("deepseek_enhanced_translation", text, target_lang)
deepseek_ocr_enhancement(text) == Result("deepseek_ocr_enhancement", text, NoLang)
deepseek_enhanced_embeddings(text) == Result("deepseek_enhanced_embeddings", text, NoLang)

\* line 514: {'error': 'Unknown request type'}
UnknownRequestType == Result("Unknown request type", NoText, NoLang)

\* lines 464-470: the groups, in the order of the dict
GroupTypes == <<"language_detection", "translation", "ocr_enhancement",
                "embeddings", "analysis">>

\* lines 473-480: the requests of a group, tagged with their original index;
\* a type that is not a group goes to 'analysis'
GroupOf(request) ==
    IF \E g \in DOMAIN GroupTypes : GroupTypes[g] = request.type
    THEN request.type ELSE "analysis"

Grouped(batch_requests, type) ==
    LET tagged == [i \in DOMAIN batch_requests |->
                      [request |-> batch_requests[i], original_index |-> i - 1]]
    IN SelectSeq(tagged, LAMBDA r : GroupOf(r.request) = type)

\* What the upstream call of a batch of n texts gives: no response, a
\* response that json.loads or the loop over its items rejects, or a JSON
\* array that holds an item for some of the text_index values 1..n
Responses(n) ==
    {[kind |-> "none", answered |-> {}], [kind |-> "unparsable", answered |-> {}]}
    \cup {[kind |-> "items", answered |-> S] : S \in SUBSET (1..n)}

\* batch_language_detection (528-607): an item of the response when there
\* is one for the text, else the detection of the text alone; all texts
\* alone when the batch call fails
batch_language_detection(texts, response) ==
    IF texts = <<>> THEN <<>>
    ELSE IF response.kind = "items"
    THEN [i \in DOMAIN texts |->
            IF i \in response.answered
            THEN Result("batch_language_detection", texts[i], NoLang)
            ELSE deepseek_enhanced_language_detection(texts[i])]
    ELSE [i \in DOMAIN texts |-> deepseek_enhanced_language_detection(texts[i])]

\* the target languages of the translations
TargetLangs == {"en", "ml"}

\* line 619: req.get('target_lang', 'en')
TargetLang(request) ==
    IF request.target_lang = NoLang THEN "en" ELSE request.target_lang

\* lines 617-621: the places in translation_requests of the requests with
\* one target language, in their order
LangGroup(translation_requests, target_lang) ==
    SelectSeq([i \in DOMAIN translation_requests |-> i],
              LAMBDA i : TargetLang(translation_requests[i]) = target_lang)

\* batch_translation (609-700): response[l] is what the upstream gives for
\* the batch of language l. A language with one request is translated
\* alone (627-631); in a batch, a request takes its item of the response or
\* is translated alone (666-690); a response that cannot be parsed raises,
\* and every request is translated alone (695-699)
batch_translation(translation_requests, response) ==
    LET langs   == {TargetLang(translation_requests[i]) : i \in DOMAIN translation_requests}
        group(l) == LangGroup(translation_requests, l)
        alone(i) == deepseek_enhanced_translation(translation_requests[i].text,
                                                  TargetLang(translation_requests[i]))
        raised  == \E l \in langs :
                      Len(group(l)) > 1 /\ response[l].kind = "unparsable"
        place(i) == CHOOSE k \in DOMAIN group(TargetLang(translation_requests[i])) :
                       group(TargetLang(translation_requests[i]))[k] = i
    IN IF raised
       THEN [i \in DOMAIN translation_requests |-> alone(i)]
       ELSE [i \in DOMAIN translation_requests |->
               LET l == TargetLang(translation_requests[i])
               IN IF Len(group(l)) > 1 /\ response[l].kind = "items"
                     /\ place(i) \in response[l].answered
                  THEN Result("batch_translation", translation_requests[i].text, l)
                  ELSE alone(i)]

\* (faulty variant) the results are returned in the order of the groups
ByIndex_Unsorted(results) == results

\* line 521: results.sort(key=lambda x: x['index'])
ByIndex(results) ==
    LET place(i) == 1 + Cardinality({j \in DOMAIN results :
                        \/ results[j].index < results[i].index
                        \/ results[j].index = results[i].index /\ j < i})
    IN [p \in DOMAIN results |-> results[CHOOSE i \in DOMAIN results : place(i) = p]]

\* lines 488-493, 497-502: the results of a group with their original indices
Indexed(requests, batch_results) ==
    [i \in DOMAIN batch_results |->
        [index |-> requests[i].original_index, result |-> batch_results[i]]]

\* a call deepseek_batch_processing(batch_requests), about to group
BatchCall(batch_requests) ==
    [pc |-> "L473", batch_requests |-> batch_requests, grouped_requests |-> <<>>,
     group |-> 1, results |-> <<>>, returned |-> <<>>]

\* lines 473-480: the requests are grouped by type
GroupRequests ==
    /\ batching.pc = "L473"
    /\ batching' = [batching EXCEPT
          !.pc = "L483",
          !.grouped_requests =
              [g \in DOMAIN GroupTypes |-> Grouped(batching.batch_requests, GroupTypes[g])]]
    /\ UNCHANGED <<optimizer, chunking, normalizing, prioritizing, assembling,
                   scoring, answering>>

\* the group that line 483 has reached
AtGroup(type) ==
    /\ batching.pc = "L483"
    /\ batching.group <= Len(GroupTypes)
    /\ GroupTypes[batching.group] = type

\* lines 484-485: a group without requests is passed over
SkipGroup ==
    /\ batching.pc = "L483"
    /\ batching.group <= Len(GroupTypes)
    /\ batching.grouped_requests[batching.group] = <<>>
    /\ batching' = [batching EXCEPT !.group = @ + 1]
    /\ UNCHANGED <<optimizer, chunking, normalizing, prioritizing, assembling,
                   scoring, answering>>

\* lines 487-493: the language detections are batched
DetectBatch ==
    /\ AtGroup("language_detection")
    /\ LET requests == batching.grouped_requests[batching.group]
       IN /\ requests # <<>>
          /\ \E response \in Responses(Len(requests)) :
                batching' = [batching EXCEPT
                   !.group = @ + 1,
                   !.results = @ \o Indexed(requests,
                       batch_language_detection(
                           [i \in DOMAIN requests |-> requests[i].request.text],
                           response))]
    /\ UNCHANGED <<optimizer, chunking, normalizing, prioritizing, assembling,
                   scoring, answering>>

\* lines 495-502: the translations are batched
TranslateBatch ==
    /\ AtGroup("translation")
    /\ LET requests == batching.grouped_requests[batching.group]
       IN /\ requests # <<>>
          /\ \E response \in [TargetLangs -> Responses(Len(requests))] :
                /\ \A l \in TargetLangs :
                      response[l].answered \subseteq
                         1..Len(LangGroup([i \in DOMAIN requests |-> requests[i].request], l))
                /\ batching' = [batching EXCEPT
                      !.group = @ + 1,
                      !.results = @ \o Indexed(requests,
                          batch_translation(
                              [i \in DOMAIN requests |-> requests[i].request],
                              response))]
    /\ UNCHANGED <<optimizer, chunking, normalizing, prioritizing, assembling,
                   scoring, answering>>

\* lines 504-518: the requests of the other groups are processed one by one
ProcessOneByOne ==
    /\ batching.pc = "L483"
    /\ batching.group <= Len(GroupTypes)
    /\ GroupTypes[batching.group] \in {"ocr_enhancement", "embeddings", "analysis"}
    /\ LET requests == batching.grouped_requests[batching.group]
           type     == GroupTypes[batching.group]
       IN /\ requests # <<>>
          /\ batching' = [batching EXCEPT
                !.group = @ + 1,
                !.results = @ \o
                   [i \in DOMAIN requests |->
                       [index  |-> requests[i].original_index,
                        result |-> IF type = "ocr_enhancement"
                                   THEN deepseek_ocr_enhancement(requests[i].request.text)
                                   ELSE IF type = "embeddings"
                                   THEN deepseek_enhanced_embeddings(requests[i].request.text)
                                   ELSE UnknownRequestType]]]
    /\ UNCHANGED <<optimizer, chunking, normalizing, prioritizing, assembling,
                   scoring, answering>>

\* lines 521-522: the results are sorted by original index and returned
ReturnResults ==
    /\ batching.pc = "L483"
    /\ batching.group > Len(GroupTypes)
    /\ batching' = [batching EXCEPT
          !.pc = "returned",
          !.returned = LET sorted_results == ByIndex(batching.results)
                       IN [i \in DOMAIN sorted_results |-> sorted_results[i].result]]
    /\ UNCHANGED <<optimizer, chunking, normalizing, prioritizing, assembling,
                   scoring, answering>>

\* the requests tried: every type of the groups, a type that is none of
\* them, and translations to either language or without target_lang
RequestKinds ==
    {<<t, NoLang>> : t \in {"language_detection", "ocr_enhancement", "embeddings",
                            "analysis", "summary"}}
    \cup {<<"translation", l>> : l \in TargetLangs \cup {NoLang}}

\* the batches of at most MaxBatch requests; request i carries text i
Batches ==
    UNION {{[i \in 1..n |-> [type |-> kind[i][1], text |-> i, target_lang |-> kind[i][2]]] :
              kind \in [1..n -> RequestKinds]} :
           n \in 0..MaxBatch}

BatchInit ==
    /\ OptimizerInit
    /\ chunking = NoCall
    /\ normalizing = NoCall
    /\ prioritizing = NoCall
    /\ assembling = NoCall
    /\ scoring = NoCall
    /\ \E batch_requests \in Batches : batching = BatchCall(batch_requests)
    /\ answering = NoCall

BatchNext ==
    GroupRequests \/ SkipGroup \/ DetectBatch \/ TranslateBatch
       \/ ProcessOneByOne \/ ReturnResults
BatchSpec == BatchInit /\ [][BatchNext]_vars

\* ---------------------------------------------------------- global_chat
\* the methods of class DocumentProcessor (1749-2430); the class has no
\* base class and no __getattr__
DocumentProcessorMethods ==
    {"__init__", "extract_text_from_file", "detect_language", "generate_ai_analysis",
     "_create_analysis_from_chunks", "_apply_role_heuristics",
     "_combine_role_predictions", "_generate_fallback_analysis", "generate_embeddings"}

\* the names that global_chat binds in its body before it first reads
\* them. `from datetime import datetime, timedelta` (3217) makes datetime a
\* local name of the whole function, bound only when line 3217 has run
BoundAt3113 == {"data", "user_question", "user_roles", "language", "conn", "cursor",
                "role_filter", "params", "query", "documents"}

\* jsonify(...) with a status
ErrorResponse(status, error) == [status |-> status, kind |-> "error", text |-> error]
AnswerResponse(answer) == [status |-> 200, kind |-> "answer", text |-> answer]

\* line 3068: data.get('query') or data.get('question')
user_question(data) ==
    IF PyTruthy(Get(data, "query", PyNone))
    THEN Get(data, "query", PyNone)
    ELSE Get(data, "question", PyNone)

\* a request to /chat/global with its JSON body, for a user who can read
\* `accessible` of the active documents
GlobalChatCall(data, accessible) ==
    [pc |-> "L3067", data |-> data, accessible |-> accessible,
     user_question |-> PyNone, language |-> PyNone, documents |-> 0,
     response |-> PyNone]

\* lines 3067-3073: no question, error 400
RejectQuestion ==
    /\ answering.pc = "L3067"
    /\ ~PyTruthy(user_question(answering.data))
    /\ answering' = [answering EXCEPT
          !.pc = "returned",
          !.response = ErrorResponse(400, "question is required")]
    /\ UNCHANGED <<optimizer, chunking, normalizing, prioritizing, assembling,
                   scoring, batching>>

\* lines 3067-3105: the question is there; the documents that the user's
\* roles allow are fetched
FetchDocuments ==
    /\ answering.pc = "L3067"
    /\ PyTruthy(user_question(answering.data))
    /\ answering' = [answering EXCEPT
          !.pc = "L3107",
          !.user_question = user_question(answering.data),
          !.language = Get(answering.data, "language", PyStr("en")),
          !.documents = Min(answering.accessible, DOCUMENT_LIMIT)]
    /\ UNCHANGED <<optimizer, chunking, normalizing, prioritizing, assembling,
                   scoring, batching>>

\* lines 3107-3114, 3372-3374: no document. The response needs
\* datetime.now() (3113); datetime is a local name that is not bound yet,
\* the read raises UnboundLocalError and the handler answers 500
NoDocuments ==
    /\ answering.pc = "L3107"
    /\ answering.documents = 0
    /\ answering' = [answering EXCEPT
          !.pc = "returned",
          !.response = IF "datetime" \in BoundAt3113
                       THEN AnswerResponse("No accessible documents found for your role.")
                       ELSE ErrorResponse(500, "local variable 'datetime' referenced before assignment")]
    /\ UNCHANGED <<optimizer, chunking, normalizing, prioritizing, assembling,
                   scoring, batching>>

\* lines 3128-3129: the languages to which the question is translated:
\* to English unless it is English, to Malayalam unless it is Malayalam
Translations(language) ==
    {l \in {PyStr("en"), PyStr("ml")} : language # l}

\* lines 3117-3129, 3372-3374: processor = DocumentProcessor() is asked to
\* translate the question. The class has no method translate_text, the
\* call raises AttributeError and the handler answers 500
TranslateQuestion ==
    /\ answering.pc = "L3107"
    /\ answering.documents > 0
    /\ Translations(answering.language) # {}
    /\ "translate_text" \notin DocumentProcessorMethods
    /\ answering' = [answering EXCEPT
          !.pc = "returned",
          !.response = ErrorResponse(500,
              "'DocumentProcessor' object has no attribute 'translate_text'")]
    /\ UNCHANGED <<optimizer, chunking, normalizing, prioritizing, assembling,
                   scoring, batching>>

\* the JSON bodies tried: 'query' and 'question' missing, null, empty or a
\* text; 'language' missing or a language code
QuestionValues == {Absent, PyNone, PyStr(""), PyStr("list"), PyStr("fare")}
Bodies ==
    {PyDict([query |-> q1, question |-> q2, language |-> l]) :
        q1 \in QuestionValues, q2 \in QuestionValues,
        l \in {Absent, PyStr("en"), PyStr("ml"), PyStr("hi")}}

GlobalChatInit ==
    /\ OptimizerInit
    /\ chunking = NoCall
    /\ normalizing = NoCall
    /\ prioritizing = NoCall
    /\ assembling = NoCall
    /\ scoring = NoCall
    /\ batching = NoCall
    /\ \E data \in Bodies, accessible \in 0..MaxDocuments :
          answering = GlobalChatCall(data, accessible)

\* The rest of the handler (3131-3370: the relevance of the documents, the
\* call of optimized_deepseek_call at 3325 and the fallback answer of
\* 3332-3351) is never reached: every request that has a question ends at
\* line 3113 or at line 3128 or 3129
GlobalChatNext == RejectQuestion \/ FetchDocuments \/ NoDocuments \/ TranslateQuestion
GlobalChatSpec == GlobalChatInit /\ [][GlobalChatNext]_vars

\* ------------------------- chat_with_document: the call of the optimizer
\* lines 2893-2898. The documents asked about here are of one section, which
\* create_intelligent_chunks returns whole (968-979) and the context shows
\* whole (2836-2858); the question is asked in English, so question_en and
\* question_ml are the question itself (2801-2802)

\* the content given to the optimizer (2895), the string
\* f"{user_question[:100]}_{len(document_text)}". It is shorter than the
\* 1000 characters get_cache_key reads, for which one character of a
\* content stands: the strings are numbered, different strings differently
cache_content(document_text, question) ==
    LET asked == Prefix(question, QUESTION_PREFIX)
    IN <<(asked[1] - 1) * MaxAskedLen + Len(document_text)>>

\* the prompt (2872-2891): what of it depends on the request
chat_prompt(document_text, question) ==
    [document_context |-> document_text,
     question_en      |-> question,
     question_ml      |-> question]

\* lines 2893-2898: the handler calls the optimizer with its prompt
AskDocument(p, document_text, question) ==
    /\ Call(p, TRUE, cache_content(document_text, question))
    /\ prompts' = Append(prompts, chat_prompt(document_text, question))

\* the documents of the store: two of one length, and one of each greater length
AskedDocuments ==
    {<<a>> : a \in 1..2} \cup {[i \in 1..n |-> 1] : n \in 2..MaxAskedLen}

\* the questions of the users, none longer than QUESTION_PREFIX
AskedQuestions == {<<1>>, <<2>>}

\* chat requests served one at a time
ChatCallNext ==
    \/ Tick
    \/ \E document_text \in AskedDocuments, question \in AskedQuestions :
          AskDocument(1, document_text, question)
    \/ AfterCall(1, TRUE)
ChatCallSpec == Init /\ [][ChatCallNext]_vars

\* ------------------------------------------------------------- claims
\* the calls of the log that record_request gave a timestamp later than
\* t - RATE_WINDOW, among the first i - 1
LiveBefore(i, t) ==
    {j \in 1..(i - 1) : /\ history[j].recorded # NoTime
                        /\ history[j].recorded > t - RATE_WINDOW}

\* when call r of the log began, the cache held an unexpired entry for its key
WasCached(r) ==
    r.held # NoItem /\ r.began - r.held.timestamp < cache_ttl

\* the calls i .. i + ceiling of the log are ceiling + 1 calls with pairwise
\* distinct keys, none of them cached, made within one rate window that
\* starts empty
CeilingRun(i) ==
    LET last == i + max_requests_per_minute IN
    /\ last <= Len(history)
    /\ LiveBefore(i, history[i].began) = {}
    /\ \A a, b \in i..last : a # b => history[a].key # history[b].key
    /\ \A a \in i..last : ~WasCached(history[a])
    /\ history[last].began - history[i].began < RATE_WINDOW

\* C1: from an empty rate window, of ceiling + 1 calls with pairwise distinct
\* cache keys made one after the other within the rate window, each of the
\* first ceiling calls invokes the upstream, whether it then succeeds or
\* fails, and the last one is denied: it returns None without invoking it.
C1_RateCeiling ==
    \A i \in 1..Len(history) :
        CeilingRun(i) =>
            LET last == i + max_requests_per_minute IN
            /\ \A a \in i..(last - 1) :
                  history[a].invoked = 1 /\ history[a].outcome # "denied"
            /\ history[last].outcome = "denied"
            /\ history[last].ret = None
            /\ history[last].invoked = 0

\* a run of ceiling + 1 calls that does not start at the first call and in
\* which an admitted call failed
C1_Witness ==
    \E i \in 2..Len(history) :
        /\ CeilingRun(i)
        /\ history[i].answer = None
        /\ history[i + max_requests_per_minute].outcome = "denied"

\* C2 as stated: of two calls with the same (operation, content, params),
\* the second made within the cache TTL of the first, at most one invokes
\* the upstream and the second returns what the first returned.
C2_Original ==
    \A i, j \in 1..Len(history) :
        (/\ i < j
         /\ history[i].key = history[j].key
         /\ history[j].began - history[i].began < cache_ttl)
        => /\ history[i].invoked + history[j].invoked <= 1
           /\ history[j].ret = history[i].ret

\* C2 (amended): when the first call obtained a non-empty completion from
\* the upstream, and so stored it, no store in between evicted that entry
\* for capacity, and the second call is made less than cache_ttl after the
\* entry was stored, the second call is a cache hit: it invokes no upstream
\* and returns what the first returned.
C2_IdempotentCache ==
    \A i, j \in 1..Len(history) :
        (/\ i < j
         /\ history[i].key = history[j].key
         /\ history[i].outcome = "ok"
         /\ history[j].began - history[i].stored < cache_ttl
         /\ \A m \in i..(j - 1) : history[m].evicted # history[i].key)
        => /\ history[j].outcome = "hit"
           /\ history[j].invoked = 0
           /\ history[j].ret = history[i].ret

\* a stored completion is served again after a call for another key and
\* after the clock has advanced
C2_Witness ==
    \E i, j \in 1..Len(history) :
        /\ i + 1 < j
        /\ history[i].key = history[j].key
        /\ history[i].outcome = "ok"
        /\ history[i + 1].outcome = "ok"
        /\ history[j].outcome = "hit"
        /\ history[j].began > history[i].stored
        /\ history[j].ret = history[i].ret

\* the timestamps record_request appended in the window that ends at t
AdmittedInWindow(t) ==
    {i \in 1..Len(admitted) : admitted[i] > t - RATE_WINDOW /\ admitted[i] <= t}

\* C3: under every interleaving of the rate-window steps of concurrent
\* calls, the calls admitted to the upstream within any one rate window
\* never exceed max_requests_per_minute.
C3_ConcurrentCeiling ==
    \A t \in 0..MaxTime :
        Cardinality(AdmittedInWindow(t)) <= max_requests_per_minute

\* no thread is inside cache_result (845-855)
NoStoreInProgress == \A p \in Procs : pc[p] \notin {"L847", "L853", "L855"}

\* C4: under every interleaving of the steps of concurrent cache_result
\* calls, the cache holds at most CACHE_MAX entries whenever no store is in
\* progress.
C4_ConcurrentCacheBound == NoStoreInProgress => Len(cache) <= CACHE_MAX

\* C5: every request the service sends to the upstream was preceded by a
\* passing rate check and left a timestamp in the rate window: there are
\* never more upstream requests than timestamps recorded.
C5_NoBypass == api_calls <= Len(admitted)

\* C6: in a sequential run a call that misses the cache at time t is
\* admitted if and only if fewer than max_requests_per_minute of the calls
\* admitted before it have a timestamp later than t - RATE_WINDOW, and is
\* denied otherwise.
C6_SlidingWindow ==
    \A i \in 1..Len(history) :
        ~WasCached(history[i]) =>
            LET below == Cardinality(LiveBefore(i, history[i].began))
                             < max_requests_per_minute
            IN /\ below <=> (history[i].recorded = history[i].began /\ history[i].invoked = 1)
               /\ ~below <=> history[i].outcome = "denied"

\* a call is denied and, less than one window later, once an earlier
\* timestamp has aged out while another is still live, a call is admitted
C6_Witness ==
    \E i, j \in 1..Len(history) :
        /\ i < j
        /\ history[i].outcome = "denied"
        /\ history[j].invoked = 1
        /\ history[j].began - history[i].began < RATE_WINDOW
        /\ LiveBefore(j, history[j].began) # {}

\* thread p returns from optimized_deepseek_call in this step
Returns(p) == pc[p] # "idle" /\ pc'[p] = "idle"

\* the call that returns in this step, as logged
Returned == history'[Len(history')]

\* occurrences of x in the sequence s
Count(s, x) == Cardinality({i \in 1..Len(s) : s[i] = x})

\* C7: a call that finds an unexpired entry for its key returns the cached
\* response with no rate check and no upstream request, and leaves the rate
\* window, the request counter and the cache as they were, also when the
\* window is at its ceiling.
C7_HitFrame ==
    [][\A p \in Procs :
          (Returns(p) /\ WasCached(Returned)) =>
              /\ Returned.outcome = "hit"
              /\ Returned.ret = Returned.held.result
              /\ Returned.checked = NoTime
              /\ Returned.invoked = 0
              /\ api_calls' = api_calls
              /\ shared' = local[p].entry]_vars

\* a cache hit was served while the rate window was at its ceiling
C7_Witness ==
    /\ pc[1] = "idle"
    /\ Len(history) > 0
    /\ history[Len(history)].outcome = "hit"
    /\ Cardinality(LiveBefore(Len(history), history[Len(history)].began))
           >= max_requests_per_minute

\* C8: a call that the rate check denies returns None, sends no upstream
\* request, adds no timestamp to the rate window, does not increment the
\* request counter and stores nothing in the cache.
C8_DenialFrame ==
    [][\A p \in Procs :
          (Returns(p) /\ Returned.outcome = "denied") =>
              /\ Returned.ret = None
              /\ Returned.invoked = 0
              /\ api_calls' = api_calls
              /\ \A t \in 0..MaxTime :
                    Count(request_timestamps', t) <= Count(local[p].entry[2], t)
              /\ request_counts' = local[p].entry[3]
              /\ \A i \in 1..Len(cache') :
                    \E j \in 1..Len(local[p].entry[1]) :
                        local[p].entry[1][j] = cache'[i]]_vars

\* a call was denied while the cache held an entry and the window held the
\* timestamps of the calls admitted before
C8_Witness ==
    /\ pc[1] = "idle"
    /\ Len(history) > 0
    /\ history[Len(history)].outcome = "denied"
    /\ Len(cache) > 0
    /\ Len(request_timestamps) = max_requests_per_minute
    /\ request_counts = max_requests_per_minute

\* C9: when the upstream request of an admitted call fails, the call
\* returns None, the cache is left as the lookup left it and holds no entry
\* for the call's key, and the next call for that key is not served from
\* the cache: unless it is denied, it invokes the upstream again.
C9_FailureNotCached ==
    [][\A p \in Procs :
          Returns(p) =>
              /\ Returned.answer = None =>
                    /\ Returned.ret = None
                    /\ ~HasKey(cache', Returned.key)
                    /\ cache' = SelectSeq(local[p].entry[1],
                                          LAMBDA e : e.key # Returned.key)
              /\ \A i \in 1..Len(history) :
                    (/\ history[i].answer = None
                     /\ history[i].key = Returned.key
                     /\ \A m \in (i + 1)..Len(history) : history[m].key # Returned.key)
                    => /\ Returned.outcome # "hit"
                       /\ Returned.outcome # "denied" => Returned.invoked = 1]_vars

\* a call failed upstream and the next call for the same key reached the
\* upstream and stored its completion
C9_Witness ==
    \E i \in 1..(Len(history) - 1) :
        /\ history[i].answer = None
        /\ history[i].ret = None
        /\ history[i + 1].key = history[i].key
        /\ history[i + 1].outcome = "ok"
        /\ Len(cache) > 0

\* the entries of the sequence c
Entries(c) == {c[i] : i \in 1..Len(c)}

\* C10: a lookup returns an entry's result only if now - timestamp <
\* cache_ttl; a lookup that finds an expired entry deletes that entry and
\* reports a miss; and no entry leaves the cache otherwise, except the one
\* a store evicts: the expired entries of other keys stay.
C10_ExpiryOnLookup ==
    [][/\ (\A p \in Procs : pc[p] = "idle" /\ pc'[p] = "idle") => cache' = cache
       /\ \A p \in Procs :
             Returns(p) =>
                 LET held == Returned.held
                     expired == held # NoItem
                                /\ Returned.began - held.timestamp >= cache_ttl
                 IN /\ Returned.outcome = "hit" =>
                          /\ held # NoItem
                          /\ Returned.began - held.timestamp < cache_ttl
                          /\ Returned.ret = held.result
                    /\ expired =>
                          /\ Returned.outcome # "hit"
                          /\ held \notin Entries(cache')
                    /\ \A e \in Entries(local[p].entry[1]) \ Entries(cache') :
                          \/ e = held /\ expired
                          \/ e.key = Returned.evicted /\ Returned.outcome = "ok"]_vars

\* a lookup has deleted the expired entry of its own key while the expired
\* entry of another key stays in the cache, and get_usage_stats counts it
C10_Witness ==
    /\ Len(history) > 0
    /\ LET r == history[Len(history)] IN
          /\ r.held # NoItem
          /\ r.began - r.held.timestamp >= cache_ttl
          /\ \E e \in Entries(cache) : e.key # r.key /\ r.began - e.timestamp >= cache_ttl
    /\ usage_stats # <<>>
    /\ usage_stats.cache_entries = Len(cache)

\* C11: after any sequential series of stores and lookups the cache holds at
\* most CACHE_MAX entries; a store that makes the size exceed CACHE_MAX
\* removes exactly one entry, one of smallest timestamp, and never the
\* entry just stored when the timestamps are distinct; a store within
\* capacity removes nothing.
C11_OldestFirstEviction ==
    [][/\ (\A p \in Procs : pc'[p] = "idle") => Len(cache') <= CACHE_MAX
       /\ \A p \in Procs :
             (Returns(p) /\ Returned.stored # NoTime) =>
                 LET before == SelectSeq(local[p].entry[1],
                                         LAMBDA e : e.key # Returned.key)
                     item == [key |-> Returned.key, result |-> Returned.ret,
                              timestamp |-> Returned.stored]
                     full == Append(before, item)
                 IN IF Len(full) > CACHE_MAX
                    THEN \E i \in 1..Len(full) :
                            /\ Entries(cache') = Entries(full) \ {full[i]}
                            /\ Len(cache') = Len(full) - 1
                            /\ \A j \in 1..Len(full) :
                                  full[i].timestamp <= full[j].timestamp
                            /\ (\A a, b \in 1..Len(full) :
                                   a # b => full[a].timestamp # full[b].timestamp)
                                  => i # Len(full)
                    ELSE /\ Entries(cache') = Entries(full)
                         /\ Len(cache') = Len(full)]_vars

\* a store into a full cache whose entries have distinct timestamps has
\* evicted the oldest and kept the entry just stored
C11_Witness ==
    /\ pc[1] = "idle"
    /\ Len(history) > 0
    /\ LET r == history[Len(history)] IN
          /\ r.outcome = "ok"
          /\ r.evicted # NoKey
          /\ r.evicted # r.key
          /\ HasKey(cache, r.key)
          /\ Len(cache) = CACHE_MAX
          /\ \A i \in 1..Len(cache) :
                cache[i].key # r.key => cache[i].timestamp < r.stored

\* the call of create_intelligent_chunks has returned
ChunksReturned == chunking.pc = "returned"

\* C12: for any text T and chunk size S with overlap O < S, the chunks
\* returned by create_intelligent_chunks, in order, have start_pos = 0 for
\* the first, end_pos = len(T) for the last and
\* 0 <= end_pos(k) - start_pos(k+1) <= O for consecutive chunks, so that the
\* intervals [start_pos, end_pos) cover [0, len(T)) with no gap.
C12_Coverage ==
    ChunksReturned =>
        LET cs == chunking.chunks
            n  == Len(cs)
        IN /\ n >= 1
           /\ cs[1].start_pos = 0
           /\ cs[n].end_pos = Len(chunking.text)
           /\ \A k \in 1..(n - 1) :
                 /\ 0 <= cs[k].end_pos - cs[k + 1].start_pos
                 /\ cs[k].end_pos - cs[k + 1].start_pos <= chunking.overlap
           /\ \A x \in 0..(Len(chunking.text) - 1) :
                 \E k \in 1..n : cs[k].start_pos <= x /\ x < cs[k].end_pos

\* C13: for every text T with len(T) <= chunk_size, create_intelligent_chunks
\* returns exactly one chunk, which spans [0, len(T)), has importance 1.0
\* and is_complete = true, whatever section markers T contains.
C13_SingleChunk ==
    (ChunksReturned /\ Len(chunking.text) <= chunking.chunk_size) =>
        /\ Len(chunking.chunks) = 1
        /\ chunking.chunks[1].start_pos = 0
        /\ chunking.chunks[1].end_pos = Len(chunking.text)
        /\ chunking.chunks[1].importance = FULL_IMPORTANCE
        /\ chunking.chunks[1].is_complete

\* a text of exactly chunk_size characters that holds a section header of
\* lesser weight was returned as one chunk
C13_Witness ==
    /\ ChunksReturned
    /\ Len(chunking.text) = chunking.chunk_size
    /\ Len(chunking.chunks) = 1
    /\ \E i \in 1..Len(parse_document_structure(chunking.text)) :
          parse_document_structure(chunking.text)[i].importance < FULL_IMPORTANCE

\* s is the beginning of t
StartsWith(t, s) == Len(s) <= Len(t) /\ SubSeq(t, 1, Len(s)) = s

\* the last `overlap` characters of the span of the first chunk
TailOfFirst ==
    Slice(chunking.text, chunking.chunks[1].end_pos - chunking.overlap,
          chunking.chunks[1].end_pos)

Normalized == normalizing.pc = "returned"

\* the argument's recommended_roles, when the argument is a dict that holds
\* a dict there
GivenRec ==
    IF /\ normalizing.analysis.type = "dict"
       /\ normalizing.analysis.fields.recommended_roles.type = "dict"
    THEN normalizing.analysis.fields.recommended_roles.fields
    ELSE [roles |-> Absent, confidence |-> Absent, reasoning |-> Absent]

\* the recommended_roles of the result
ResultRec == normalizing.result.fields.recommended_roles

\* C15: for any input to normalize_analysis (a record or not, confidence
\* missing, null, non-numeric, negative, zero, above 1) the output's
\* recommended_roles.confidence is present, lies in [0.1, 1.0] and is
\* never 0.
C15_ConfidenceBound ==
    Normalized =>
        /\ normalizing.result.type = "dict"
        /\ ResultRec.type = "dict"
        /\ ResultRec.fields.confidence.type = "float"
        /\ ResultRec.fields.confidence.num >= 10
        /\ ResultRec.fields.confidence.num <= 100
        /\ ResultRec.fields.confidence.num # 0

\* a negative confidence was normalized to the lower bound
C15_Witness ==
    /\ Normalized
    /\ GivenRec.confidence = PyNum(-50)
    /\ ResultRec.fields.confidence = PyNum(10)

\* the roles given in the argument, when it holds a list of them
GivenRoles ==
    IF GivenRec.roles.type = "list" THEN GivenRec.roles.items ELSE <<>>

\* C16: the output roles are exactly the input roles that belong to
\* {LEADERSHIP, HR, FINANCE, ENGINEER, ADMIN}, in their input order; every
\* other role is dropped; and when no input role belongs to the vocabulary,
\* or roles is absent or not a list, the output is [LEADERSHIP]: the output
\* role list is never empty.
C16_RoleClosure ==
    Normalized =>
        LET kept == SelectSeq(GivenRoles,
                       LAMBDA r : r \in {"LEADERSHIP", "HR", "FINANCE",
                                         "ENGINEER", "ADMIN"})
        IN /\ ResultRec.fields.roles.type = "list"
           /\ ResultRec.fields.roles.items # <<>>
           /\ ResultRec.fields.roles.items =
                 IF kept = <<>> THEN <<"LEADERSHIP">> ELSE kept

\* the roles [HR, WIZARD] were normalized to [HR]
C16_Witness ==
    /\ Normalized
    /\ GivenRoles = <<"HR", "WIZARD">>
    /\ ResultRec.fields.roles.items = <<"HR">>

\* the raw confidence cannot be converted to a number
Unparsable(raw) ==
    \/ raw.type \in {"NoneType", "list", "dict"}
    \/ raw.type = "str" /\ raw.chars \notin {"0", "0.5", "2"}

\* C17: the output confidence is 0.15 when the raw confidence is exactly 0
\* and 0.75 when it is unparsable (null or not convertible to a number);
\* every other raw value is clamped into [0.1, 1.0].
C17_ZeroAndUnparsable ==
    (Normalized /\ GivenRec.confidence # Absent) =>
        LET raw == GivenRec.confidence
            out == ResultRec.fields.confidence.num
        IN /\ raw = PyNum(0) => out = 15
           /\ Unparsable(raw) => out = 75
           /\ (raw.type = "float" /\ raw.num # 0) =>
                 out = IF raw.num < 10 THEN 10
                       ELSE IF raw.num > 100 THEN 100 ELSE raw.num

\* the fields of a dict that are present
Present(d, keys) == \A k \in keys : d.fields[k] # Absent

\* C18: normalize_analysis never raises and always returns a complete
\* record: for every input the output contains summary text, tags, a
\* document type, a sensitivity level, a role list and a confidence; a
\* non-record input yields the fixed default record (roles [LEADERSHIP],
\* confidence 0.75, sensitivity MEDIUM, document type other).
C18_CompleteRecord ==
    Normalized =>
        /\ normalizing.result.type = "dict"
        /\ Present(normalizing.result,
                   {"summary_en", "tags", "document_type", "sensitivity_level",
                    "recommended_roles"})
        /\ Present(ResultRec, {"roles", "confidence"})
        /\ normalizing.analysis.type # "dict" =>
              /\ ResultRec.fields.roles = PyList(<<"LEADERSHIP">>)
              /\ ResultRec.fields.confidence = PyNum(75)
              /\ normalizing.result.fields.sensitivity_level = PyStr("MEDIUM")
              /\ normalizing.result.fields.document_type = PyStr("other")

\* prioritize_chunks_for_processing has returned
Prioritized == prioritizing.pc = "returned"

\* chunk a is not after chunk b in the order of the claim: more important,
\* or as important and starting no later
NotAfter(a, b) ==
    \/ a.importance > b.importance
    \/ a.importance = b.importance /\ a.start_pos <= b.start_pos

\* the result holds chunks of the input, each at most once, in the order of
\* the claim, and no chunk left out would come strictly before one kept
OrderedSelection(chunks, result) ==
    /\ \A i \in DOMAIN result : \E j \in DOMAIN chunks : result[i] = chunks[j]
    /\ \A i, j \in DOMAIN result : i # j => result[i] # result[j]
    /\ \A i, j \in DOMAIN result : i < j => NotAfter(result[i], result[j])
    /\ \A j \in DOMAIN chunks :
          (\A i \in DOMAIN result : result[i] # chunks[j]) =>
             \A i \in DOMAIN result : NotAfter(result[i], chunks[j])

\* C19: prioritize_chunks_for_processing returns chunks of its input, none
\* added, altered or duplicated, ordered by descending importance with ties
\* broken by ascending start_pos; given max_chunks = n >= 0 the result is
\* the first min(n, number of chunks) chunks of that order, and without
\* max_chunks the result holds every chunk.
C19_PrioritizedOrder ==
    Prioritized =>
        /\ OrderedSelection(prioritizing.chunks, prioritizing.result)
        /\ prioritizing.max_chunks = PyNone =>
              Len(prioritizing.result) = Len(prioritizing.chunks)
        /\ prioritizing.max_chunks # PyNone =>
              Len(prioritizing.result) =
                 Min(prioritizing.max_chunks.num, Len(prioritizing.chunks))

\* the context assembly of chat_with_document has ended
Assembled == assembling.pc = "L2860"

\* the characters of the first n top chunks, with their headers
RECURSIVE CharsOfFirst(_)
CharsOfFirst(n) ==
    IF n = 0 THEN 0
    ELSE CharsOfFirst(n - 1) + Len(chunk_context(assembling.top_chunks[n].chunk))

\* the top chunks that would overflow the budget: those with which the
\* running total would exceed max_context_length
Overflowing == {n \in DOMAIN assembling.top_chunks : CharsOfFirst(n) > max_context_length}

\* the top chunks are the most relevant of the relevant chunks, at most
\* TOP_CHUNKS of them, in descending relevance
TopByRelevance ==
    /\ Len(assembling.top_chunks) = Min(TOP_CHUNKS, Len(assembling.relevant_chunks))
    /\ \A i \in DOMAIN assembling.top_chunks :
          \E j \in DOMAIN assembling.relevant_chunks :
             assembling.top_chunks[i] = assembling.relevant_chunks[j]
    /\ \A i, j \in DOMAIN assembling.top_chunks :
          i < j => /\ assembling.top_chunks[i] # assembling.top_chunks[j]
                   /\ assembling.top_chunks[i].relevance_score
                         >= assembling.top_chunks[j].relevance_score
    /\ \A j \in DOMAIN assembling.relevant_chunks :
          (\A i \in DOMAIN assembling.top_chunks :
              assembling.top_chunks[i] # assembling.relevant_chunks[j]) =>
             \A i \in DOMAIN assembling.top_chunks :
                assembling.top_chunks[i].relevance_score
                   >= assembling.relevant_chunks[j].relevance_score

\* the first n parts of the context are the first n top chunks, whole
WholeParts(n) ==
    \A k \in 1..n :
       assembling.context_parts[k].chunk_context
          = chunk_context(assembling.top_chunks[k].chunk)

\* C20: in the context assembly of chat_with_document, chunks are appended
\* in descending relevance order while the running character total does not
\* exceed the budget; at the first chunk that would overflow, a truncated
\* prefix of that chunk is appended if and only if at least 500 characters
\* (here MEANINGFUL_SPACE) of budget remain, and in both cases no later
\* chunk is appended.
C20_GreedyAssembly ==
    Assembled =>
        /\ TopByRelevance
        /\ IF Overflowing = {}
           THEN /\ Len(assembling.context_parts) = Len(assembling.top_chunks)
                /\ WholeParts(Len(assembling.top_chunks))
           ELSE LET first == Least(Overflowing)
                    space == max_context_length - CharsOfFirst(first - 1)
                IN /\ WholeParts(first - 1)
                   /\ Len(assembling.context_parts) <= first
                   /\ Len(assembling.context_parts) = first <=> space >= MEANINGFUL_SPACE
                   /\ Len(assembling.context_parts) = first =>
                         assembling.context_parts[first].chunk_context
                            = SubSeq(chunk_context(assembling.top_chunks[first].chunk), 1, space)
                                 \o <<".", ".", ".">>

\* chat_with_document has returned its response
Responded == assembling.pc = "responded"

\* the characters of a chunk's context that part k of the LLM context
\* holds: all of them, or the prefix that precedes the "..." of a cut chunk
PlacedOf(k) ==
    LET part == assembling.context_parts[k].chunk_context
    IN IF part = chunk_context(assembling.top_chunks[k].chunk)
       THEN Len(part)
       ELSE Len(part) - 3

\* the chunk-context characters placed in the first n parts
RECURSIVE PlacedChars(_)
PlacedChars(n) == IF n = 0 THEN 0 ELSE PlacedChars(n - 1) + PlacedOf(n)

\* the last chunk of the context was cut
CutAtEnd ==
    /\ assembling.context_parts # <<>>
    /\ LET n == Len(assembling.context_parts)
       IN assembling.context_parts[n].chunk_context
             # chunk_context(assembling.top_chunks[n].chunk)

\* C21: the character total that chat_with_document reports as consumed
\* (context_coverage_chars) equals the number of chunk-context characters
\* placed in the LLM context, the truncated prefix of a final overflowing
\* chunk included.
C21_ReportedChars ==
    Responded =>
        assembling.context_metadata.context_coverage_chars
           = PlacedChars(Len(assembling.context_parts))

\* C30: for every non-empty document and every question, the coverage that
\* chat_with_document reports is a fraction of the document:
\* 0 <= context_coverage_chars <= document_total_chars, and so
\* coverage_percentage lies in [0, 100] (here in tenths of a percent).
C30_CoverageIsAFraction ==
    Responded =>
        /\ 0 <= assembling.context_metadata.context_coverage_chars
        /\ assembling.context_metadata.context_coverage_chars
              <= assembling.context_metadata.document_total_chars
        /\ 0 <= assembling.context_metadata.coverage_percentage
        /\ assembling.context_metadata.coverage_percentage <= 1000

\* find_relevant_images has scored the image
Scored == scoring.pc = "L1571"

\* the query words longer than 3 characters that are a substring of, or
\* contain, at least one candidate word
Overlapping(Q, C) ==
    {q \in Q : Len(q) > 3 /\ \E c \in C :
        \/ \E a \in 0..(Len(c) - Len(q)) : SubSeq(c, a + 1, a + Len(q)) = q
        \/ \E a \in 0..(Len(q) - Len(c)) : SubSeq(q, a + 1, a + Len(c)) = c}

\* 0.6 * f1 + 0.3 * f2 + 0.1 * h for query words Q, candidate words C and a
\* hint of h10 tenths, in units of 1 / (200 * max(|Q|, 1)):
\* f1 = |Q \cap C| / max(|Q|, 1), f2 = min(1, 0.5 * n / max(|Q|, 1))
ClaimedScore(Q, C, h10) ==
    LET d == IF Cardinality(Q) > 1 THEN Cardinality(Q) ELSE 1
        n == Cardinality(Overlapping(Q, C))
    IN 120 * Cardinality(Q \cap C)
          + 30 * (IF n > 2 * d THEN 2 * d ELSE n)
          + 2 * h10 * d

\* C22: the relevance score computed by find_relevant_images equals
\* 0.6*f1 + 0.3*f2 + 0.1*h, where f2 counts each query word longer than 3
\* characters that overlaps some candidate word once, and h = 0.5 when no
\* hint is supplied.
C22_RelevanceScore ==
    Scored =>
        scoring.relevance_score
           = ClaimedScore(scoring.query_words, scoring.image_words,
                          IF scoring.quality_score = Absent
                          THEN 5 ELSE scoring.quality_score.num)

\* deepseek_batch_processing has returned
BatchReturned == batching.pc = "returned"

\* res is a result computed for request req: by the function of its type,
\* alone or in a batch, for its text (and target language); the error
\* result for a type that is not processed
ComputedFor(req, res) ==
    CASE req.type = "language_detection" ->
            /\ res.by \in {"batch_language_detection", "deepseek_enhanced_language_detection"}
            /\ res.text = req.text
      [] req.type = "translation" ->
            /\ res.by \in {"batch_translation", "deepseek_enhanced_translation"}
            /\ res.text = req.text
            /\ res.target_lang = (IF req.target_lang = NoLang THEN "en" ELSE req.target_lang)
      [] req.type = "ocr_enhancement" ->
            res.by = "deepseek_ocr_enhancement" /\ res.text = req.text
      [] req.type = "embeddings" ->
            res.by = "deepseek_enhanced_embeddings" /\ res.text = req.text
      [] OTHER -> res.by = "Unknown request type"

\* C23: deepseek_batch_processing returns exactly one result per request,
\* and the i-th result is the result computed for the i-th request, for
\* every mix of request types and whether the batched upstream calls
\* succeed, fail, or answer only some items.
C23_OneResultPerRequestInOrder ==
    BatchReturned =>
        /\ Len(batching.returned) = Len(batching.batch_requests)
        /\ \A i \in DOMAIN batching.batch_requests :
              ComputedFor(batching.batch_requests[i], batching.returned[i])

\* a translation, a language detection and another translation to the same
\* language: the groups put the results out of order, and the batch of the
\* two translations was answered for one of them only
C23_Witness ==
    /\ BatchReturned
    /\ Len(batching.batch_requests) = 3
    /\ batching.batch_requests[1].type = "translation"
    /\ batching.batch_requests[2].type = "language_detection"
    /\ batching.batch_requests[3].type = "translation"
    /\ batching.returned[1].by = "deepseek_enhanced_translation"
    /\ batching.returned[3].by = "batch_translation"
    /\ batching.results[1].index = 1

\* global_chat has returned its response
GlobalChatReturned == answering.pc = "returned"

\* the request supplies a non-empty question, as 'query' or as 'question'
SuppliesQuestion ==
    \E k \in {"query", "question"} :
       /\ answering.data.fields[k].type = "str"
       /\ answering.data.fields[k].chars # ""

\* C24: a global-chat request that supplies a non-empty question, for a
\* user who has at least one accessible document, always ends with an
\* answer response (the LLM's answer, or the locally built fallback answer
\* when the optimizer returns None) and never with an error response.
C24_AnswerNotError ==
    (GlobalChatReturned /\ SuppliesQuestion /\ answering.accessible >= 1) =>
        /\ answering.response.kind = "answer"
        /\ answering.response.status = 200

\* the weights of the recorded section entries whose offset lies in the
\* half-open span [start_pos, end_pos)
WeightsWithin(start_pos, end_pos) ==
    {chunking.sections[i].importance : i \in
        {j \in DOMAIN chunking.sections :
            /\ start_pos <= chunking.sections[j].position
            /\ chunking.sections[j].position < end_pos}}

\* C25: for every text longer than chunk_size, the importance of each chunk
\* is the maximum weight among the recorded section entries whose offset p
\* lies in start_pos <= p < end_pos, and the base value 0.3 when no entry
\* lies in the span; so every importance is in [0.3, 1.0] and a header
\* exactly at a chunk's end_pos raises the importance of the following
\* chunk only.
C25_ImportanceOfSpan ==
    (ChunksReturned /\ Len(chunking.text) > chunking.chunk_size) =>
        \A k \in DOMAIN chunking.chunks :
           LET c == chunking.chunks[k]
               w == WeightsWithin(c.start_pos, c.end_pos)
           IN /\ c.importance = (IF w = {} THEN 3
                                 ELSE CHOOSE x \in w : \A y \in w : y <= x)
              /\ 3 <= c.importance /\ c.importance <= 10

\* the offsets just after the sentence terminators ('.', '!', '?' or a
\* blank line) that lie within BOUNDARY characters either side of c
TerminatorEnds(text, c) ==
    {e \in Max(c - BOUNDARY, 0)..Min(c + BOUNDARY, Len(text)) :
        \/ /\ e - 1 >= Max(c - BOUNDARY, 0)
           /\ e >= 1
           /\ text[e] \in {".", "!", "?"}
        \/ /\ e - 2 >= Max(c - BOUNDARY, 0)
           /\ e >= 2
           /\ text[e - 1] = "\n" /\ text[e] = "\n"}

\* the distance of e from c
Distance(e, c) == IF e >= c THEN e - c ELSE c - e

\* the raw cut point of chunk k: current_pos + chunk_size
RawCut(k) ==
    (IF k = 1 THEN 0 ELSE chunking.chunks[k - 1].end_pos) + chunking.chunk_size

\* C26: every chunk whose raw cut point c = current_pos + chunk_size lies
\* before the end of the text ends immediately after the sentence
\* terminator nearest to c among those within 100 characters (here
\* BOUNDARY) either side of c, and exactly at c when that window holds no
\* terminator.
C26_NearestTerminator ==
    (ChunksReturned /\ Len(chunking.text) > chunking.chunk_size) =>
        \A k \in DOMAIN chunking.chunks :
           LET c    == RawCut(k)
               ends == TerminatorEnds(chunking.text, c)
           IN c < Len(chunking.text) =>
                 IF ends = {}
                 THEN chunking.chunks[k].end_pos = c
                 ELSE /\ chunking.chunks[k].end_pos \in ends
                      /\ \A e \in ends :
                            Distance(chunking.chunks[k].end_pos, c) <= Distance(e, c)

\* C27: create_intelligent_chunks terminates for every text and every
\* chunk_size >= 1 and 0 <= overlap < chunk_size: each iteration of its loop
\* ends with current_pos strictly greater than before, so the list it
\* builds never holds more than len(text) chunks.
C27_LoopAdvances ==
    [][(chunking.pc = "L1023" /\ chunking'.pc = "L1023") =>
          /\ chunking'.current_pos > chunking.current_pos
          /\ Len(chunking'.chunks) <= Len(chunking.text)]_vars

\* C28: a call is returned a cached response only if its prompt is the
\* prompt of the call that produced the response. The calls follow each
\* other, so the i-th call logged is the i-th call made, and a response is
\* named by the number of the call whose upstream request it answered
C28_CachedForSamePromptOnly ==
    \A i \in 1..Len(history) :
        history[i].outcome = "hit" => prompts[i] = prompts[history[i].ret]

\* C29: normalize_analysis is idempotent: applied to its own result, it
\* returns that result, equal in every field
C29_Idempotent ==
    normalizing.pc = "returned" =>
        normalize_analysis(normalizing.result) = normalizing.result

====
